---- MODULE Spec2Model ----
(***************************************************************************)
(* Capitrack: CSV import pipeline, holdings aggregation, history replay,   *)
(* currency conversion, price cache and daily snapshots, modelled from the *)
(* TypeScript sources.                                                     *)
(*                                                                         *)
(* Numbers.  A JavaScript number is a record [nan, v]; v counts units of   *)
(* 1e-9, so that Number.toFixed(8) (steps of 10 units) and toFixed(4)      *)
(* (steps of 100000 units) round.  Text values are strings drawn from a    *)
(* finite vocabulary; the string functions of the source (toLowerCase,     *)
(* trim, toUpperCase, parseFloat, split) are tables over that vocabulary.  *)
(***************************************************************************)
EXTENDS Integers, Sequences, FiniteSets, TLC

VARIABLES
    accounts,      \* table accounts: id -> [currency]
    nextAccountId, \* AUTOINCREMENT counter of accounts
    ledger,        \* table transactions, in insertion (id) order
    nextId,        \* AUTOINCREMENT counter of transactions
    calls,         \* importCSV calls made so far, each with its ImportResult
    requests,      \* POST /import/csv requests in flight (upload pending)
    uploads,       \* the CSV files the user has at hand
    sessions,      \* the session store: cookie -> [userId, username]
    admitted,      \* the request express is serving: [cookie, path, status]
    currency_rates,\* table currency_rates: rows [from_currency, to_currency, rate]
    price_cache,   \* table price_cache: rows [symbol, price, currency, updated_at]
    users,         \* table users, in id order: rows [base_currency]
    response,      \* the last response of the currency routes
    now,           \* the clock, in minutes
    lookups,       \* the price requests made so far, each with its position
    daily_wealth   \* table daily_wealth: rows [date, total_wealth, total_cost, base_currency]

vars == <<accounts, nextAccountId, ledger, nextId, calls, requests, uploads, sessions, admitted,
          currency_rates, price_cache, users, response, now, lookups, daily_wealth>>

\* the tables and the response the import and transaction routes leave alone
market == <<currency_rates, price_cache, users, response, now, lookups, daily_wealth>>

(***************************************************************************)
(* Bounds                                                                  *)
(***************************************************************************)
MaxRows == 2        \* data rows of a CSV file
MaxImports == 2     \* importCSV calls in one behaviour
MaxHeaders == 4     \* columns of a header row given to detectFormat
MaxRequests == 2    \* POST /import/csv requests in one behaviour
MaxTx == 3          \* transactions created by POST /transactions

(***************************************************************************)
(* JavaScript values                                                       *)
(***************************************************************************)
Num(n) == [nan |-> FALSE, v |-> n]
NaN == [nan |-> TRUE, v |-> 0]

\* a || b on strings: the empty string (and undefined, read as "") is falsy
OrElse(a, b) == IF a # "" THEN a ELSE b

\* r[k] of a parsed CSV record; a missing key is undefined, read as ""
Cell(r, k) == IF k \in DOMAIN r THEN r[k] ELSE ""

\* the number 1, in units of 1e-9
Unit == 1000000000

\* parseFloat over the numeric vocabulary, in units of 1e-9
parseFloat(s) ==
    CASE s = "0" -> Num(0)
      [] s = "0.00000002" -> Num(20)
      [] s = "0.000000021" -> Num(21)
      [] s = "0.000000026" -> Num(26)
      [] s = "0.00000003" -> Num(30)
      [] s = "-0.00000002" -> Num(-20)
      [] s = "0.0002" -> Num(200000)
      [] s = "0.00021" -> Num(210000)
      [] s = "0.0003" -> Num(300000)
      [] s = "0.0001" -> Num(100000)
      [] s = "0.5" -> Num(Unit \div 2)
      [] OTHER -> NaN

\* s.replace(/[^0-9.\-]/g, '') over the numeric vocabulary
stripNonNumeric(s) ==
    CASE s = "$0.0002" -> "0.0002"
      [] s = "USD 0.0003" -> "0.0003"
      [] s = "abc" -> ""
      [] OTHER -> s

\* Math.abs
abs(x) == IF x.nan THEN NaN ELSE Num(IF x.v < 0 THEN 0 - x.v ELSE x.v)

\* x || 0 on numbers: NaN and 0 are falsy
OrZero(x) == IF x.nan THEN Num(0) ELSE x

\* !x on numbers
Falsy(x) == x.nan \/ x.v = 0

\* floor(r * 10^digits / b) for 0 <= r < b, by long division
RECURSIVE LongDiv(_, _, _, _)
LongDiv(r, b, digits, q) ==
    IF digits = 0 THEN q
    ELSE LongDiv((r * 10) % b, b, digits - 1, q * 10 + ((r * 10) \div b))

\* x / y for x >= 0 and y > 0, in units of 1e-9
Divide(x, y) ==
    IF x.nan \/ y.nan THEN NaN
    ELSE Num((x.v \div y.v) * Unit + LongDiv(x.v % y.v, y.v, 9, 0))

\* Number.prototype.toFixed(d): step is 10^-d in units of 1e-9; the result
\* is the sign and the count of steps, ties rounded up in magnitude
toFixed(x, step) ==
    IF x.nan THEN [nan |-> TRUE, neg |-> FALSE, n |-> 0]
    ELSE LET a == IF x.v < 0 THEN 0 - x.v ELSE x.v
         IN [nan |-> FALSE, neg |-> x.v < 0,
             n |-> (a \div step) + (IF 2 * (a % step) >= step THEN 1 ELSE 0)]

Step8 == 10
Step4 == 100000

\* String.prototype.toUpperCase over the symbol vocabulary
toUpperCase(s) ==
    CASE s = "aapl" -> "AAPL"
      [] s = "msft" -> "MSFT"
      [] s = "recv" -> "RECV"
      [] s = "Recv" -> "RECV"
      [] s = "sent" -> "SENT"
      [] s = "usd" -> "USD"
      [] s = "eur" -> "EUR"
      [] OTHER -> s

\* String.prototype.toLowerCase over the type vocabulary
toLowerCase(s) ==
    CASE s = "BUY" -> "buy"
      [] s = "Buy" -> "buy"
      [] s = "SELL" -> "sell"
      [] s = "Dividend" -> "dividend"
      [] s = "Ticker" -> "ticker"
      [] s = "TICKER" -> "ticker"
      [] s = "Price per share" -> "price per share"
      [] s = "PRICE PER SHARE" -> "price per share"
      [] s = "Product" -> "product"
      [] s = "Started Date" -> "started date"
      [] s = "State" -> "state"
      [] s = "Transaction ID" -> "transaction id"
      [] s = "Amount unit" -> "amount unit"
      [] s = "Symbol" -> "symbol"
      [] s = "SYMBOL" -> "symbol"
      [] s = "Type" -> "type"
      [] s = "TYPE" -> "type"
      [] s = "Date" -> "date"
      [] s = "Quantity" -> "quantity"
      [] s = "Amount" -> "amount"
      [] s = " TICKER " -> " ticker "
      [] OTHER -> s

\* String.prototype.trim over the header vocabulary
trim(s) ==
    CASE s = " ticker " -> "ticker"
      [] s = " TICKER " -> "TICKER"
      [] s = " symbol" -> "symbol"
      [] s = "type " -> "type"
      [] OTHER -> s

\* (date || '').split('T')[0].split(' ')[0]
datePart(d) ==
    CASE d = "2024-01-15T10:30:00" -> "2024-01-15"
      [] d = "2024-01-15 10:30" -> "2024-01-15"
      [] d = "2024-01-16T09:00:00" -> "2024-01-16"
      [] OTHER -> d

\* dateStr.split(' ')[0]
splitSpace(d) ==
    CASE d = "2024-01-15 10:30:00" -> "2024-01-15"
      [] d = "2024-01-15 10:30" -> "2024-01-15"
      [] d = "2024-01-16 08:00:00" -> "2024-01-16"
      [] OTHER -> d

\* new Date(dateStr).toISOString().split('T')[0]; "" stands for the
\* RangeError that toISOString throws on an invalid date
isoDay(d) ==
    CASE d = "2024-01-15T10:30:00.000Z" -> "2024-01-15"
      [] d = "2024-01-16T09:00:00.000Z" -> "2024-01-16"
      [] d = "2024-01-15" -> "2024-01-15"
      [] OTHER -> ""

\* M/D/YYYY to YYYY-MM-DD with padStart(2, '0'); "" when the text does not
\* split into three parts on '/'
trezorDate(d) ==
    CASE d = "1/15/2024" -> "2024-01-15"
      [] d = "01/15/2024" -> "2024-01-15"
      [] d = "1/16/2024" -> "2024-01-16"
      [] OTHER -> ""

TxTypes == {"buy", "sell", "transfer_in", "transfer_out", "dividend", "interest", "fee"}

(***************************************************************************)
(* Deduplication                                                           *)
(***************************************************************************)
\* buildFingerprint without the cut of the date to its day
buildFingerprint_rawDate(tx) ==
    <<tx.account_id, tx.symbol, tx.type, toFixed(tx.quantity, Step8), toFixed(tx.price, Step4), tx.date>>

\* tx carries account_id, symbol, type, quantity, price, date
buildFingerprint(tx) ==
    <<tx.account_id, tx.symbol, tx.type, toFixed(tx.quantity, Step8), toFixed(tx.price, Step4),
      datePart(tx.date)>>

\* a row as SELECT account_id, symbol, type, quantity, price, date returns it
SelectedRow(r) ==
    [account_id |-> r.account_id, symbol |-> r.symbol, type |-> r.type,
     quantity |-> Num(r.quantity), price |-> Num(r.price), date |-> r.date]

\* getExistingFingerprints selecting WHERE id = ? instead of account_id = ?
getExistingFingerprints_byRowId(led, accountId) ==
    {buildFingerprint(SelectedRow(led[i])) : i \in {j \in 1..Len(led) : led[j].id = accountId}}

\* getExistingFingerprints that loads nothing
getExistingFingerprints_none(led, accountId) == {}

getExistingFingerprints(led, accountId) ==
    {buildFingerprint(SelectedRow(led[i])) : i \in {j \in 1..Len(led) : led[j].account_id = accountId}}

(***************************************************************************)
(* Generic CSV parser                                                      *)
(***************************************************************************)
RECURSIVE parseGeneric(_)
parseGeneric(records) ==
    IF records = <<>> THEN <<>>
    ELSE LET r == Head(records)
             symbol == toUpperCase(OrElse(Cell(r, "symbol"), OrElse(Cell(r, "Symbol"), Cell(r, "SYMBOL"))))
             type == toLowerCase(OrElse(Cell(r, "type"), OrElse(Cell(r, "Type"), OrElse(Cell(r, "TYPE"), "buy"))))
             quantity == parseFloat(OrElse(Cell(r, "quantity"), OrElse(Cell(r, "Quantity"), OrElse(Cell(r, "QUANTITY"), "0"))))
             price == parseFloat(OrElse(Cell(r, "price"), OrElse(Cell(r, "Price"), OrElse(Cell(r, "PRICE"), "0"))))
             fee == parseFloat(OrElse(Cell(r, "fee"), OrElse(Cell(r, "Fee"), OrElse(Cell(r, "FEE"), "0"))))
             currency == OrElse(Cell(r, "currency"), OrElse(Cell(r, "Currency"), OrElse(Cell(r, "CURRENCY"), "EUR")))
             date == OrElse(Cell(r, "date"), OrElse(Cell(r, "Date"), Cell(r, "DATE")))
             notes == OrElse(Cell(r, "notes"), OrElse(Cell(r, "Notes"), Cell(r, "NOTES")))
             rest == parseGeneric(Tail(records))
         IN IF symbol = "" \/ date = "" THEN rest
            ELSE IF type \notin TxTypes THEN rest
            ELSE <<[symbol |-> symbol, type |-> type, quantity |-> quantity, price |-> price,
                    fee |-> fee, currency |-> currency, date |-> date, notes |-> notes]>> \o rest

(***************************************************************************)
(* Revolut stock parser.  The result is [threw, txs]: threw when            *)
(* toISOString raises on an unparsable date, which leaves importCSV.        *)
(***************************************************************************)
\* the mapping of the Type column without the DIVIDEND branch
RevolutTxType_noDividend(type) ==
    CASE type = "BUY - MARKET" -> "buy"
      [] type = "SELL - MARKET" -> "sell"
      [] type = "STOCK SPLIT" -> "transfer_in"
      [] OTHER -> ""

RevolutTxType(type) ==
    CASE type = "BUY - MARKET" -> "buy"
      [] type = "SELL - MARKET" -> "sell"
      [] type = "DIVIDEND" -> "dividend"
      [] type = "STOCK SPLIT" -> "transfer_in"
      [] OTHER -> ""

RECURSIVE parseRevolutStock(_)
parseRevolutStock(records) ==
    IF records = <<>> THEN [threw |-> FALSE, txs |-> <<>>]
    ELSE LET r == Head(records)
             type == trim(Cell(r, "Type"))
             ticker == trim(Cell(r, "Ticker"))
             txType == RevolutTxType(type)
             quantity == abs(parseFloat(OrElse(Cell(r, "Quantity"), "0")))
             price == OrZero(parseFloat(stripNonNumeric(OrElse(Cell(r, "Price per share"), "0"))))
             total == OrZero(abs(parseFloat(stripNonNumeric(OrElse(Cell(r, "Total Amount"), "0")))))
             currency == trim(OrElse(Cell(r, "Currency"), "USD"))
             dateStr == trim(Cell(r, "Date"))
             badDate == dateStr # "" /\ isoDay(dateStr) = ""
             date == IF dateStr # "" THEN isoDay(dateStr) ELSE ""
             split0 == txType = "transfer_in" /\ ~quantity.nan /\ quantity.v = 0 /\ total.v = 0
             finalQty == IF split0 THEN parseFloat(OrElse(Cell(r, "Quantity"), "0"))
                         ELSE IF txType = "dividend" THEN total ELSE quantity
             finalPrice == IF split0 THEN Num(0)
                           ELSE IF txType = "dividend" THEN Num(Unit) ELSE price
             rest == parseRevolutStock(Tail(records))
         IN IF ticker = "" \/ type \in {"CASH TOP-UP", "CASH WITHDRAWAL"} THEN rest
            ELSE IF txType = "" THEN rest
            ELSE IF badDate THEN [threw |-> TRUE, txs |-> <<>>]
            ELSE IF date = "" THEN rest
            ELSE [rest EXCEPT !.txs =
                     <<[symbol |-> toUpperCase(ticker), type |-> txType, quantity |-> finalQty,
                        price |-> finalPrice, fee |-> Num(0), currency |-> currency, date |-> date,
                        notes |-> "Revolut: " \o type]>> \o @]

(***************************************************************************)
(* Revolut commodity parser                                                *)
(***************************************************************************)
commoditySymbol(currency) ==
    CASE currency = "XAU" -> "GC=F"
      [] currency = "XAG" -> "SI=F"
      [] currency = "XPT" -> "PL=F"
      [] currency = "XPD" -> "PA=F"
      [] OTHER -> currency

\* description.includes('Exchanged to EUR') || description.includes('Exchanged to USD')
toFiat(description) == description \in {"Exchanged to EUR", "Exchanged to USD"}

\* description.startsWith('Exchanged to')
startsExchanged(description) ==
    description \in {"Exchanged to EUR", "Exchanged to USD", "Exchanged to XAU", "Exchanged to XAG"}

RECURSIVE parseRevolutCommodity(_)
parseRevolutCommodity(records) ==
    IF records = <<>> THEN <<>>
    ELSE LET r == Head(records)
             state == trim(Cell(r, "State"))
             description == trim(Cell(r, "Description"))
             amount == parseFloat(OrElse(Cell(r, "Amount"), "0"))
             fee == abs(parseFloat(OrElse(Cell(r, "Fee"), "0")))
             currency == trim(OrElse(Cell(r, "Currency"), "XAU"))
             dateStr == trim(OrElse(Cell(r, "Started Date"), Cell(r, "Completed Date")))
             date == IF dateStr # "" THEN splitSpace(dateStr) ELSE ""
             symbol == commoditySymbol(currency)
             rest == parseRevolutCommodity(Tail(records))
         IN IF state # "COMPLETED" THEN rest
            ELSE IF date = "" THEN rest
            ELSE IF ~startsExchanged(description) THEN rest
            ELSE <<[symbol |-> symbol, type |-> IF toFiat(description) THEN "sell" ELSE "buy",
                    quantity |-> abs(amount), price |-> Num(0), fee |-> fee, currency |-> "EUR",
                    date |-> date, notes |-> "Revolut Commodity: " \o description \o " (" \o currency \o ")"]>> \o rest

(***************************************************************************)
(* Trezor parser                                                           *)
(***************************************************************************)
trezorSymbol(amountUnit) ==
    CASE amountUnit = "BTC" -> "BTC-USD"
      [] amountUnit = "ETH" -> "ETH-USD"
      [] amountUnit = "LTC" -> "LTC-USD"
      [] OTHER -> amountUnit \o "-USD"

\* txId.substring(0, 16)
substring16(txId) ==
    CASE txId = "4a5e1e4baab89f3a32518a88c31bc87f" -> "4a5e1e4baab89f3a"
      [] OTHER -> txId

RECURSIVE parseTrezor(_)
parseTrezor(records) ==
    IF records = <<>> THEN <<>>
    ELSE LET r == Head(records)
             type == toUpperCase(trim(Cell(r, "Type")))
             amount == abs(parseFloat(OrElse(Cell(r, "Amount"), "0")))
             amountUnit == trim(OrElse(Cell(r, "Amount unit"), "BTC"))
             fiatUsd == OrZero(abs(parseFloat(stripNonNumeric(OrElse(Cell(r, "Fiat (USD)"), "0")))))
             fee == OrZero(abs(parseFloat(stripNonNumeric(OrElse(Cell(r, "Fee"), "0")))))
             dateStr == trim(Cell(r, "Date"))
             txId == trim(Cell(r, "Transaction ID"))
             date == IF dateStr # "" THEN trezorDate(dateStr) ELSE ""
             rest == parseTrezor(Tail(records))
         IN IF date = "" \/ Falsy(amount) THEN rest
            ELSE IF type \notin {"RECV", "SENT"} THEN rest
            ELSE <<[symbol |-> trezorSymbol(amountUnit),
                    type |-> IF type = "RECV" THEN "transfer_in" ELSE "transfer_out",
                    quantity |-> amount,
                    price |-> IF amount.v > 0 THEN Divide(fiatUsd, amount) ELSE Num(0),
                    fee |-> fee, currency |-> "USD", date |-> date,
                    notes |-> IF txId # "" THEN "TxID: " \o substring16(txId) \o "..."
                              ELSE "Trezor " \o amountUnit]>> \o rest

(***************************************************************************)
(* Format detection                                                        *)
(***************************************************************************)
includes(h, name) == \E i \in 1..Len(h) : h[i] = name

\* detectFormat with the generic rule tried first
detectFormat_genericFirst(headers) ==
    LET h == [i \in 1..Len(headers) |-> trim(toLowerCase(headers[i]))]
    IN IF includes(h, "symbol") /\ includes(h, "type") THEN "generic"
       ELSE IF includes(h, "ticker") /\ includes(h, "price per share") THEN "revolut-stocks"
       ELSE IF includes(h, "product") /\ includes(h, "started date") /\ includes(h, "state") THEN "revolut-commodities"
       ELSE IF includes(h, "transaction id") /\ includes(h, "amount unit") THEN "trezor"
       ELSE "unknown"

detectFormat(headers) ==
    LET h == [i \in 1..Len(headers) |-> trim(toLowerCase(headers[i]))]
    IN IF includes(h, "ticker") /\ includes(h, "price per share") THEN "revolut-stocks"
       ELSE IF includes(h, "product") /\ includes(h, "started date") /\ includes(h, "state") THEN "revolut-commodities"
       ELSE IF includes(h, "transaction id") /\ includes(h, "amount unit") THEN "trezor"
       ELSE IF includes(h, "symbol") /\ includes(h, "type") THEN "generic"
       ELSE "unknown"

(***************************************************************************)
(* importCSV                                                               *)
(***************************************************************************)
\* INSERT INTO transactions: the constraints of the schema.  A NaN bound to
\* a REAL column is stored as NULL, which NOT NULL rejects.
InsertError(accts, accountId, tx) ==
    IF accountId \notin DOMAIN accts THEN "FOREIGN KEY constraint failed"
    ELSE IF tx.type \notin TxTypes THEN "CHECK constraint failed: type"
    ELSE IF tx.quantity.nan THEN "NOT NULL constraint failed: transactions.quantity"
    ELSE IF tx.price.nan THEN "NOT NULL constraint failed: transactions.price"
    ELSE ""

StoredRow(id, accountId, tx) ==
    [id |-> id, account_id |-> accountId, symbol |-> tx.symbol, type |-> tx.type,
     quantity |-> tx.quantity.v, price |-> tx.price.v, fee |-> tx.fee,
     currency |-> tx.currency, date |-> tx.date, notes |-> tx.notes]

\* { account_id: accountId, ...tx }
WithAccount(accountId, tx) ==
    [account_id |-> accountId, symbol |-> tx.symbol, type |-> tx.type, quantity |-> tx.quantity,
     price |-> tx.price, date |-> tx.date]

\* doImportLoop without existing.add(fp)
RECURSIVE doImportLoop_noAdd(_, _, _, _, _)
doImportLoop_noAdd(accts, accountId, parsedTx, i, st) ==
    IF i > Len(parsedTx) \/ st.thrown THEN st
    ELSE LET tx == parsedTx[i]
             fp == buildFingerprint(WithAccount(accountId, tx))
             err == InsertError(accts, accountId, tx)
         IN IF fp \in st.existing
            THEN doImportLoop_noAdd(accts, accountId, parsedTx, i + 1, [st EXCEPT !.skipped = @ + 1, !.outcome = Append(@, "skipped")])
            ELSE IF err # ""
            THEN doImportLoop_noAdd(accts, accountId, parsedTx, i + 1,
                     [st EXCEPT !.errors = Append(@, [row |-> i, message |-> err]),
                                !.outcome = Append(@, "error")])
            ELSE doImportLoop_noAdd(accts, accountId, parsedTx, i + 1,
                     [st EXCEPT !.ledger = Append(@, StoredRow(st.nextId, accountId, tx)),
                                !.nextId = @ + 1,
                                !.imported = @ + 1,
                                !.outcome = Append(@, "imported")])

\* doImportLoop without the try/catch around a row: the failure leaves the body
RECURSIVE doImportLoop_noCatch(_, _, _, _, _)
doImportLoop_noCatch(accts, accountId, parsedTx, i, st) ==
    IF i > Len(parsedTx) \/ st.thrown THEN st
    ELSE LET tx == parsedTx[i]
             fp == buildFingerprint(WithAccount(accountId, tx))
             err == InsertError(accts, accountId, tx)
         IN IF fp \in st.existing
            THEN doImportLoop_noCatch(accts, accountId, parsedTx, i + 1, [st EXCEPT !.skipped = @ + 1, !.outcome = Append(@, "skipped")])
            ELSE IF err # ""
            THEN [st EXCEPT !.thrown = TRUE, !.outcome = Append(@, "error")]
            ELSE doImportLoop_noCatch(accts, accountId, parsedTx, i + 1,
                     [st EXCEPT !.ledger = Append(@, StoredRow(st.nextId, accountId, tx)),
                                !.nextId = @ + 1,
                                !.existing = @ \cup {fp},
                                !.imported = @ + 1,
                                !.outcome = Append(@, "imported")])

\* The body of doImport: one pass over parsedTx with a try/catch per row.
\* st.thrown is the exception that leaves the body, if any; st.outcome
\* records, row by row, which branch the row took.
RECURSIVE doImportLoop(_, _, _, _, _)
doImportLoop(accts, accountId, parsedTx, i, st) ==
    IF i > Len(parsedTx) \/ st.thrown THEN st
    ELSE LET tx == parsedTx[i]
             fp == buildFingerprint(WithAccount(accountId, tx))
             err == InsertError(accts, accountId, tx)
         IN IF fp \in st.existing
            THEN doImportLoop(accts, accountId, parsedTx, i + 1, [st EXCEPT !.skipped = @ + 1, !.outcome = Append(@, "skipped")])
            ELSE IF err # ""
            THEN doImportLoop(accts, accountId, parsedTx, i + 1,
                     [st EXCEPT !.errors = Append(@, [row |-> i, message |-> err]),
                                !.outcome = Append(@, "error")])
            ELSE doImportLoop(accts, accountId, parsedTx, i + 1,
                     [st EXCEPT !.ledger = Append(@, StoredRow(st.nextId, accountId, tx)),
                                !.nextId = @ + 1,
                                !.existing = @ \cup {fp},
                                !.imported = @ + 1,
                                !.outcome = Append(@, "imported")])

\* db.transaction(fn)(): commit when fn returns, roll back when it throws
\* a transaction that is rolled back whatever its body did
dbTransaction_rollback(led, nid, out) == [out EXCEPT !.ledger = led, !.nextId = nid]

dbTransaction(led, nid, out) ==
    IF out.thrown THEN [out EXCEPT !.ledger = led, !.nextId = nid] ELSE out

\* the switch over format; [threw, txs]
parseByFormat(format, records) ==
    CASE format = "revolut-stocks" -> parseRevolutStock(records)
      [] format = "revolut-commodities" -> [threw |-> FALSE, txs |-> parseRevolutCommodity(records)]
      [] format = "trezor" -> [threw |-> FALSE, txs |-> parseTrezor(records)]
      [] format = "generic" -> [threw |-> FALSE, txs |-> parseGeneric(records)]

KnownFormats == {"revolut-stocks", "revolut-commodities", "trezor", "generic"}

NoResult == [imported |-> 0, skipped |-> 0, total |-> 0, errors |-> <<>>, format |-> "unknown"]

\* importCSV(csvContent, accountId, formatHint); formatHint "" is null.
\* Yields the ImportResult together with the ledger it leaves behind; threw
\* when the call ends in an exception instead of a result.
importCSV(accts, led, nid, file, accountId, formatHint) ==
    IF file.records = <<>>
    THEN [threw |-> FALSE, result |-> NoResult,
          ledger |-> led, nextId |-> nid, parsed |-> <<>>, outcome |-> <<>>]
    ELSE LET format == OrElse(formatHint, detectFormat(file.headers))
         IN IF format \notin KnownFormats
            THEN [threw |-> FALSE,
                  result |-> [imported |-> 0, skipped |-> 0, total |-> Len(file.records),
                              errors |-> <<[row |-> 0, message |-> "Unknown CSV format"]>>,
                              format |-> "unknown"],
                  ledger |-> led, nextId |-> nid, parsed |-> <<>>, outcome |-> <<>>]
            ELSE LET p == parseByFormat(format, file.records)
                     parsedTx == p.txs
                     st0 == [ledger |-> led, nextId |-> nid,
                             existing |-> getExistingFingerprints(led, accountId),
                             imported |-> 0, skipped |-> 0, errors |-> <<>>, thrown |-> FALSE,
                             outcome |-> <<>>]
                     out == dbTransaction(led, nid, doImportLoop(accts, accountId, parsedTx, 1, st0))
                 IN IF p.threw
                    THEN [threw |-> TRUE, result |-> NoResult,
                          ledger |-> led, nextId |-> nid, parsed |-> <<>>, outcome |-> <<>>]
                    ELSE [threw |-> out.thrown,
                          result |-> [imported |-> out.imported, skipped |-> out.skipped,
                                      total |-> Len(parsedTx), errors |-> out.errors, format |-> format],
                          ledger |-> out.ledger, nextId |-> out.nextId,
                          parsed |-> parsedTx, outcome |-> out.outcome]

(***************************************************************************)
(* CSV files                                                               *)
(***************************************************************************)
GenericHeaders == <<"symbol", "type", "quantity", "price", "fee", "currency", "date", "notes">>

GBase ==
    [symbol |-> "AAPL", type |-> "buy", quantity |-> "0.00000002", price |-> "0.0002", fee |-> "0",
     currency |-> "USD", date |-> "2024-01-15", notes |-> ""]

GenericRows ==
    { GBase,
      [GBase EXCEPT !.fee = "0.5", !.currency = "", !.notes = "broker fee", !.date = "2024-01-15T10:30:00"],
      [GBase EXCEPT !.symbol = "msft"],
      [GBase EXCEPT !.quantity = "0.000000021"],
      [GBase EXCEPT !.quantity = "abc"] }

RevolutStockHeaders ==
    <<"Date", "Ticker", "Type", "Quantity", "Price per share", "Total Amount", "Currency", "FX Rate">>

RSBase ==
    ("Date" :> "2024-01-15T10:30:00.000Z") @@ ("Ticker" :> "AAPL") @@ ("Type" :> "BUY - MARKET") @@
    ("Quantity" :> "0.00000002") @@ ("Price per share" :> "$0.0002") @@
    ("Total Amount" :> "$0.0002") @@ ("Currency" :> "USD") @@ ("FX Rate" :> "")

RevolutStockRows ==
    { RSBase,
      [RSBase EXCEPT !["Ticker"] = "", !["Type"] = "CASH TOP-UP", !["Quantity"] = "",
                     !["Price per share"] = ""] }

RevolutCommodityHeaders ==
    <<"Type", "Product", "Started Date", "Completed Date", "Description", "Amount", "Fee",
      "Currency", "State", "Balance">>

RevolutCommodityRows ==
    { ("Type" :> "EXCHANGE") @@ ("Product" :> "Current") @@ ("Started Date" :> "2024-01-15 10:30:00") @@
      ("Completed Date" :> "2024-01-15 10:30:00") @@ ("Description" :> "Exchanged to XAU") @@
      ("Amount" :> "0.00000003") @@ ("Fee" :> "0") @@ ("Currency" :> "XAU") @@
      ("State" :> "COMPLETED") @@ ("Balance" :> "") }

TrezorHeaders ==
    <<"Timestamp", "Date", "Time", "Type", "Transaction ID", "Fee", "Fee unit", "Address", "Label",
      "Amount", "Amount unit", "Fiat (USD)", "Other">>

TrezorRows ==
    { ("Timestamp" :> "") @@ ("Date" :> "1/15/2024") @@ ("Time" :> "") @@ ("Type" :> "RECV") @@
      ("Transaction ID" :> "4a5e1e4baab89f3a32518a88c31bc87f") @@ ("Fee" :> "0") @@
      ("Fee unit" :> "BTC") @@ ("Address" :> "") @@ ("Label" :> "") @@ ("Amount" :> "0.0001") @@
      ("Amount unit" :> "BTC") @@ ("Fiat (USD)" :> "0.00000003") @@ ("Other" :> "") }

SeqsUpTo(S, n) == UNION {[1..k -> S] : k \in 0..n}

FilesOf(headers, rows) == {[headers |-> headers, records |-> rs] : rs \in SeqsUpTo(rows, MaxRows)}

Files ==
    FilesOf(GenericHeaders, GenericRows) \cup FilesOf(RevolutStockHeaders, RevolutStockRows)
    \cup FilesOf(RevolutCommodityHeaders, RevolutCommodityRows) \cup FilesOf(TrezorHeaders, TrezorRows)

\* single-row files
ShortFiles == {f \in Files : Len(f.records) = 1}

FormatHints == {""}

AccountIds == {1, 2}

(***************************************************************************)
(* Actions                                                                 *)
(***************************************************************************)
\* no request has reached the server
NoRequest == [cookie |-> "", path |-> "", status |-> 0]

NoResponse == [route |-> "", status |-> 0]

\* no rate, no cached price and no user yet
EmptyMarket ==
    /\ currency_rates = {}
    /\ price_cache = {}
    /\ users = <<>>
    /\ response = NoResponse
    /\ now = 0
    /\ lookups = <<>>
    /\ daily_wealth = {}

Init ==
    /\ accounts = [a \in AccountIds |-> [currency |-> "EUR"]]
    /\ ledger = <<>>
    /\ nextId = 1
    /\ nextAccountId = 3
    /\ sessions = <<>>
    /\ admitted = NoRequest
    /\ calls = <<>>
    /\ requests = {}
    /\ EmptyMarket
    /\ uploads = {}

\* the user holds one or two CSV files: an export of up to MaxRows rows and
\* a single-row file
InitImport ==
    /\ accounts = [a \in AccountIds |-> [currency |-> "EUR"]]
    /\ ledger = <<>>
    /\ nextId = 1
    /\ nextAccountId = 3
    /\ sessions = <<>>
    /\ admitted = NoRequest
    /\ calls = <<>>
    /\ requests = {}
    /\ EmptyMarket
    /\ uploads \in {{f, g} : f \in Files, g \in ShortFiles}

\* One synchronous importCSV call (auto-import, or the body of the
\* POST /import/csv handler)
ImportCSV(file, accountId, hint) ==
    /\ Len(calls) < MaxImports
    /\ accountId \in DOMAIN accounts
    /\ LET out == importCSV(accounts, ledger, nextId, file, accountId, hint)
       IN /\ ledger' = out.ledger
          /\ nextId' = out.nextId
          /\ calls' = Append(calls, [file |-> file, account |-> accountId, hint |-> hint,
                                      threw |-> out.threw, result |-> out.result,
                                      before |-> ledger, after |-> out.ledger,
                                      parsed |-> out.parsed, outcome |-> out.outcome])
    /\ UNCHANGED <<accounts, nextAccountId, requests, uploads, sessions, admitted, market>>

NextImport == \E f \in uploads, a \in AccountIds, h \in FormatHints : ImportCSV(f, a, h)

SpecImport == InitImport /\ [][NextImport]_vars

(***************************************************************************)
(* Properties of the import pipeline                                       *)
(***************************************************************************)
Fps(c) == [i \in 1..Len(c.parsed) |-> buildFingerprint(WithAccount(c.account, c.parsed[i]))]

NewRows(c) == SubSeq(c.after, Len(c.before) + 1, Len(c.after))

Numeric(tx) == ~tx.quantity.nan /\ ~tx.price.nan

CountOutcome(c, o) == Cardinality({i \in 1..Len(c.outcome) : c.outcome[i] = o})

FreshDistinct(c) ==
    /\ c.result.format \in KnownFormats
    /\ \A i, j \in 1..Len(c.parsed) : i # j => Fps(c)[i] # Fps(c)[j]
    /\ \A i \in 1..Len(c.parsed) : Fps(c)[i] \notin getExistingFingerprints(c.before, c.account)

Repeated(i) ==
    /\ i + 1 <= Len(calls)
    /\ calls[i + 1].file = calls[i].file
    /\ calls[i + 1].account = calls[i].account
    /\ calls[i + 1].hint = calls[i].hint

FirstThenRepeat(i) ==
    /\ calls[i].result.imported = Len(calls[i].parsed)
    /\ calls[i].result.skipped = 0
    /\ Repeated(i) =>
          /\ calls[i + 1].result.imported = 0
          /\ calls[i + 1].result.skipped = Len(calls[i].parsed)
          /\ calls[i + 1].after = calls[i + 1].before

\* C1 (as stated): a file of N parsed rows with pairwise distinct
\* fingerprints, none of them in the account's ledger, is imported with
\* imported=N, skipped=0, and its immediate repetition gives imported=0,
\* skipped=N and adds no ledger row.
C1_ReimportAnyFile ==
    \A i \in 1..Len(calls) : FreshDistinct(calls[i]) => FirstThenRepeat(i)

\* C1 (amended): the same, for files all of whose parsed rows carry a
\* numeric quantity and price, so that every insert succeeds.
C1_ReimportIdempotent ==
    \A i \in 1..Len(calls) :
        (FreshDistinct(calls[i]) /\ \A k \in 1..Len(calls[i].parsed) : Numeric(calls[i].parsed[k]))
            => FirstThenRepeat(i)

C1_Witness ==
    /\ Len(calls) = 2
    /\ FreshDistinct(calls[1])
    /\ Repeated(1)
    /\ Len(calls[1].parsed) = 2
    /\ calls[1].result.imported = 2
    /\ calls[2].result.skipped = 2
    /\ calls[2].result.imported = 0

\* the rows of call c that share the fingerprint of row i
SameFp(c, i) == {j \in 1..Len(c.parsed) : Fps(c)[j] = Fps(c)[i]}

InsertedWithFp(c, i) ==
    Cardinality({k \in 1..Len(NewRows(c)) : buildFingerprint(SelectedRow(NewRows(c)[k])) = Fps(c)[i]})

DuplicatedInFile(c, i) ==
    /\ Cardinality(SameFp(c, i)) >= 2
    /\ Fps(c)[i] \notin getExistingFingerprints(c.before, c.account)

OneInsertedRestSkipped(c, i) ==
    /\ InsertedWithFp(c, i) = 1
    /\ Cardinality({j \in SameFp(c, i) : c.outcome[j] = "imported"}) = 1
    /\ Cardinality({j \in SameFp(c, i) : c.outcome[j] = "skipped"}) = Cardinality(SameFp(c, i)) - 1

\* C2 (as stated): of the rows of one file that share a fingerprint the
\* ledger does not hold, exactly one is inserted and the others are skipped.
C2_WithinFileAnyRows ==
    \A n \in 1..Len(calls) : \A i \in 1..Len(calls[n].parsed) :
        DuplicatedInFile(calls[n], i) => OneInsertedRestSkipped(calls[n], i)

\* C2 (amended): the same, for rows with a numeric quantity and price; the
\* row that is inserted is the first of them.
C2_WithinFileDedup ==
    \A n \in 1..Len(calls) : \A i \in 1..Len(calls[n].parsed) :
        (DuplicatedInFile(calls[n], i) /\ Numeric(calls[n].parsed[i]))
            => /\ OneInsertedRestSkipped(calls[n], i)
               /\ \A j \in SameFp(calls[n], i) :
                     calls[n].outcome[j] = "imported" <=> (\A k \in SameFp(calls[n], i) : j <= k)

C2_Witness ==
    \E n \in 1..Len(calls) :
        /\ Len(calls[n].parsed) = 2
        /\ DuplicatedInFile(calls[n], 1)
        /\ Numeric(calls[n].parsed[1])
        /\ calls[n].result.imported = 1
        /\ calls[n].result.skipped = 1

AccountRows(led, a) == {i \in 1..Len(led) : led[i].account_id = a}

\* tx agrees with x in every field of the fingerprint, as the user sees
\* them: symbol, type, quantity, price and calendar day
SameFields(x, tx) ==
    /\ x.symbol = tx.symbol
    /\ x.type = tx.type
    /\ x.quantity = tx.quantity
    /\ x.price = tx.price
    /\ datePart(x.date) = datePart(tx.date)

\* the same, with quantity at 8 and price at 4 decimals
SameRoundedFields(x, tx) ==
    /\ x.symbol = tx.symbol
    /\ x.type = tx.type
    /\ toFixed(x.quantity, Step8) = toFixed(tx.quantity, Step8)
    /\ toFixed(x.price, Step4) = toFixed(tx.price, Step4)
    /\ datePart(x.date) = datePart(tx.date)

MatchesLedgerRow(c, i) ==
    \E k \in AccountRows(c.before, c.account) : SameFields(SelectedRow(c.before[k]), c.parsed[i])

\* a candidate that differs from an existing row only in fee, notes or
\* currency is skipped
FeeNotesCurrencyIgnored ==
    \A n \in 1..Len(calls) : \A i \in 1..Len(calls[n].parsed) :
        MatchesLedgerRow(calls[n], i) => calls[n].outcome[i] = "skipped"

\* C3 (as stated): the fingerprint depends only on account, symbol, type,
\* quantity, price and day: a candidate differing from a ledger row only in
\* fee, notes or currency is skipped, and a candidate that differs from every
\* ledger row of the account (and every earlier row of the file) in one of
\* the fingerprint fields is imported (rows with a numeric quantity and
\* price, whose insert cannot fail).
C3_DifferingFieldImported ==
    /\ FeeNotesCurrencyIgnored
    /\ \A n \in 1..Len(calls) : \A i \in 1..Len(calls[n].parsed) :
          ( /\ Numeric(calls[n].parsed[i])
            /\ ~MatchesLedgerRow(calls[n], i)
            /\ \A j \in 1..(i - 1) : ~SameFields(calls[n].parsed[j], calls[n].parsed[i]) )
          => calls[n].outcome[i] = "imported"

\* C3 (amended): quantity counts at 8 decimals and price at 4: a candidate
\* differing from every ledger row of the account and every earlier row of
\* the file in symbol, type, rounded quantity, rounded price or day is never
\* skipped, and is imported when its quantity and price are numeric.
C3_FingerprintFields ==
    /\ FeeNotesCurrencyIgnored
    /\ \A n \in 1..Len(calls) : \A i \in 1..Len(calls[n].parsed) :
          ( /\ \A k \in AccountRows(calls[n].before, calls[n].account) :
                  ~SameRoundedFields(SelectedRow(calls[n].before[k]), calls[n].parsed[i])
            /\ \A j \in 1..(i - 1) : ~SameRoundedFields(calls[n].parsed[j], calls[n].parsed[i]) )
          => /\ calls[n].outcome[i] # "skipped"
             /\ Numeric(calls[n].parsed[i]) => calls[n].outcome[i] = "imported"

C3_Witness ==
    /\ Len(calls) = 2
    /\ calls[2].account = calls[1].account
    /\ calls[1].result.imported = 1
    /\ Len(calls[2].parsed) = 2
    /\ MatchesLedgerRow(calls[2], 1)
    /\ calls[2].parsed[1].fee # calls[1].parsed[1].fee
    /\ calls[2].parsed[2].symbol # calls[1].parsed[1].symbol
    /\ calls[2].outcome = <<"skipped", "imported">>

\* the stored form of parsed row i of call c is among the rows c added
Holds(c, i) ==
    \E k \in 1..Len(NewRows(c)) :
        /\ NewRows(c)[k].account_id = c.account
        /\ SameFields(SelectedRow(NewRows(c)[k]), c.parsed[i])
        /\ NewRows(c)[k].fee = c.parsed[i].fee
        /\ NewRows(c)[k].notes = c.parsed[i].notes

\* C4: a row whose insert fails is caught and recorded as one error string;
\* the rows after it are still examined and the rows inserted before it
\* stay: after the call the ledger holds every row counted in imported.
C4_RowFailureIsolated ==
    \A n \in 1..Len(calls) :
        LET c == calls[n]
        IN /\ Len(c.outcome) = Len(c.parsed)
           /\ c.result.format \in KnownFormats =>
                 /\ Len(c.result.errors) = CountOutcome(c, "error")
                 /\ \A i \in 1..Len(c.parsed) :
                       c.outcome[i] = "error" <=>
                           (\E e \in 1..Len(c.result.errors) : c.result.errors[e].row = i)
           /\ c.result.imported = CountOutcome(c, "imported")
           /\ Len(c.after) = Len(c.before) + c.result.imported
           /\ SubSeq(c.after, 1, Len(c.before)) = c.before
           /\ \A i \in 1..Len(c.parsed) : c.outcome[i] = "imported" => Holds(c, i)

C4_Witness ==
    /\ Len(calls) = 2
    /\ calls[1].outcome = <<"error", "imported">>
    /\ calls[2].outcome = <<"error", "skipped">>
    /\ Len(ledger) = 1
    /\ Len(calls[1].result.errors) = 1

(***************************************************************************)
(* Format detection on its own                                             *)
(***************************************************************************)
\* column names as they appear in exports, with case and padding variants
HeaderNames ==
    {" TICKER ", "PRICE PER SHARE", "Product", "Started Date", "State", "Transaction ID",
     "Amount unit", "SYMBOL", "type ", "foo"}

HeaderRows == SeqsUpTo(HeaderNames, MaxHeaders)

InitDetect ==
    /\ accounts = [a \in AccountIds |-> [currency |-> "EUR"]]
    /\ ledger = <<>>
    /\ nextId = 1
    /\ nextAccountId = 3
    /\ sessions = <<>>
    /\ admitted = NoRequest
    /\ calls = <<>>
    /\ requests = {}
    /\ EmptyMarket
    /\ uploads \in {{[headers |-> hs, records |-> <<>>]} : hs \in HeaderRows}

\* detectFormat(Object.keys(records[0])) / detectFormat(headers)
DetectFormat(file) ==
    /\ calls = <<>>
    /\ calls' = <<[headers |-> file.headers, format |-> detectFormat(file.headers)]>>
    /\ UNCHANGED <<accounts, nextAccountId, ledger, nextId, requests, uploads, sessions, admitted, market>>

NextDetect == \E f \in uploads : DetectFormat(f)

SpecDetect == InitDetect /\ [][NextDetect]_vars

\* the names of a header row as a set, lower-cased and trimmed
NameSet(hs) == {trim(toLowerCase(hs[i])) : i \in 1..Len(hs)}

\* the rules in their fixed order
Rules ==
    << [format |-> "revolut-stocks", required |-> {"ticker", "price per share"}],
       [format |-> "revolut-commodities", required |-> {"product", "started date", "state"}],
       [format |-> "trezor", required |-> {"transaction id", "amount unit"}],
       [format |-> "generic", required |-> {"symbol", "type"}] >>

Matching(hs) == {r \in 1..Len(Rules) : Rules[r].required \subseteq NameSet(hs)}

\* C5: detectFormat returns the format of the first rule, in the order
\* revolut-stocks, revolut-commodities, trezor, generic, whose required
\* names all occur in the header row once lower-cased and trimmed, whatever
\* the order of the columns, and unknown when no rule matches.
C5_FirstMatchingRule ==
    \A n \in 1..Len(calls) :
        LET c == calls[n]
            m == Matching(c.headers)
        IN IF m = {} THEN c.format = "unknown"
           ELSE \E r \in m : (\A q \in m : r <= q) /\ c.format = Rules[r].format

\* symbol and type come before ticker and price per share, in upper case
\* and padded: two rules match and the earlier one is returned
C5_Witness ==
    /\ Len(calls) = 1
    /\ calls[1].headers = <<"SYMBOL", "type ", "PRICE PER SHARE", " TICKER ">>
    /\ calls[1].format = "revolut-stocks"

(***************************************************************************)
(* POST /import/csv: requests that overlap in time                         *)
(***************************************************************************)
\* req.file as a sequence: <<>> when the multipart body carries no file
\* req.body.account_id: 0 when the field is missing, 3 names no account
RequestInputs(files) ==
    {[file |-> <<f>>, account |-> a] : f \in files, a \in {0, 1, 2, 3}}
    \cup {[file |-> <<>>, account |-> 1]}

InitRequests ==
    /\ accounts = [a \in AccountIds |-> [currency |-> "EUR"]]
    /\ ledger = <<>>
    /\ nextId = 1
    /\ nextAccountId = 3
    /\ sessions = <<>>
    /\ admitted = NoRequest
    /\ calls = <<>>
    /\ requests = {}
    /\ EmptyMarket
    /\ uploads \in {{f} : f \in Files}

\* A request reaches the server and multer starts to read its body; the
\* route handler has not run yet.  arrived remembers the ledger of that
\* moment.
Arrive(in) ==
    /\ Len(calls) + Cardinality(requests) < MaxRequests
    /\ requests' = requests \cup
          {[id |-> Len(calls) + Cardinality(requests) + 1, file |-> in.file,
            account |-> in.account, arrived |-> ledger]}
    /\ UNCHANGED <<accounts, nextAccountId, ledger, nextId, calls, uploads, sessions, admitted, market>>

\* The body is read and express calls the route handler: nothing but the
\* request being pending is waited for (no lock, no await)
Dispatch(r) ==
    /\ r \in requests
    /\ requests' = requests \ {r}

Respond(r, status, out, led) ==
    calls' = Append(calls, [id |-> r.id, status |-> status, account |-> r.account,
                            arrived |-> r.arrived, before |-> ledger, after |-> led,
                            threw |-> out.threw, result |-> out.result,
                            parsed |-> out.parsed, outcome |-> out.outcome])

NoImport == [threw |-> FALSE, result |-> NoResult, parsed |-> <<>>, outcome |-> <<>>]

\* the handler, had it loaded the fingerprint set when the request arrived
Handle_staleSet(r) ==
    /\ Dispatch(r)
    /\ IF r.file = <<>> \/ r.account = 0
          THEN Respond(r, 400, NoImport, ledger) /\ UNCHANGED <<ledger, nextId>>
       ELSE IF r.account \notin DOMAIN accounts
          THEN Respond(r, 404, NoImport, ledger) /\ UNCHANGED <<ledger, nextId>>
       ELSE LET out == importCSV(accounts, r.arrived, nextId, r.file[1], r.account, "")
                led == ledger \o SubSeq(out.ledger, Len(r.arrived) + 1, Len(out.ledger))
            IN /\ ledger' = led
               /\ nextId' = out.nextId
               /\ Respond(r, IF out.threw THEN 400 ELSE 200, out, led)
    /\ UNCHANGED <<accounts, nextAccountId, uploads, sessions, admitted, market>>

\* The route handler, run by the event loop once the body is read: it is
\* synchronous from its first line to res.json
Handle(r) ==
    /\ Dispatch(r)
    /\ IF r.file = <<>> \/ r.account = 0
          THEN Respond(r, 400, NoImport, ledger) /\ UNCHANGED <<ledger, nextId>>
       ELSE IF r.account \notin DOMAIN accounts
          THEN Respond(r, 404, NoImport, ledger) /\ UNCHANGED <<ledger, nextId>>
       ELSE LET out == importCSV(accounts, ledger, nextId, r.file[1], r.account, "")
            IN /\ ledger' = out.ledger
               /\ nextId' = out.nextId
               /\ Respond(r, IF out.threw THEN 400 ELSE 200, out, out.ledger)
    /\ UNCHANGED <<accounts, nextAccountId, uploads, sessions, admitted, market>>

NextRequests ==
    \/ \E in \in RequestInputs(uploads) : Arrive(in)
    \/ \E r \in requests : Handle(r)

SpecRequests == InitRequests /\ [][NextRequests]_vars

Imported(c) == c.status = 200 /\ c.result.format \in KnownFormats

EarlierInFile(c, i) ==
    \E j \in 1..(i - 1) : Fps(c)[j] = Fps(c)[i] /\ c.outcome[j] = "imported"

\* C6 (as stated): each request deduplicates against the fingerprint set of
\* the moment it started: a row is skipped only when the ledger of that
\* moment, or an earlier row of the same file, holds its fingerprint.
C6_SetLoadedAtRequestStart ==
    \A n \in 1..Len(calls) :
        Imported(calls[n]) =>
            \A i \in 1..Len(calls[n].parsed) :
                calls[n].outcome[i] = "skipped" =>
                    \/ Fps(calls[n])[i] \in getExistingFingerprints(calls[n].arrived, calls[n].account)
                    \/ EarlierInFile(calls[n], i)

\* C6 (amended): requests that overlap in time are served one handler at a
\* time.  Each handler deduplicates against the ledger of the moment it
\* runs, so the ledger never holds two rows with the same fingerprint, and
\* every request that has arrived can be handled (no deadlock).
C6_OverlappingImportsSerialized ==
    /\ \A n \in 1..Len(calls) :
          Imported(calls[n]) =>
              \A i \in 1..Len(calls[n].parsed) :
                  calls[n].outcome[i] = "skipped" <=>
                      \/ Fps(calls[n])[i] \in getExistingFingerprints(calls[n].before, calls[n].account)
                      \/ EarlierInFile(calls[n], i)
    /\ \A k, l \in 1..Len(ledger) :
          k # l => buildFingerprint(SelectedRow(ledger[k])) # buildFingerprint(SelectedRow(ledger[l]))
    /\ \A r \in requests : ENABLED Dispatch(r)

\* two requests for account 1 are both in flight before either is handled;
\* the second one handled skips what the first inserted
C6_Witness ==
    /\ Len(calls) = 2
    /\ Imported(calls[1]) /\ Imported(calls[2])
    /\ calls[1].account = 1 /\ calls[2].account = 1
    /\ calls[1].arrived = <<>> /\ calls[2].arrived = <<>>
    /\ calls[1].result.imported = 2
    /\ calls[2].result.imported = 0
    /\ calls[2].result.skipped = 2
    /\ Len(ledger) = 2

(***************************************************************************)
(* SQL and number helpers of the holdings queries                          *)
(***************************************************************************)
\* 0.00000001 of the HAVING clauses and of the history replay, in units of 1e-9
HavingEps == 10

\* SQL NULL in a REAL column whose values are fractions
NULL == [null |-> TRUE, num |-> 0, den |-> 1]

RECURSIVE gcd(_, _)
gcd(a, b) == IF b = 0 THEN a ELSE gcd(b, a % b)

Magnitude(n) == IF n < 0 THEN 0 - n ELSE n

\* the real number n / d, d # 0, in lowest terms with a positive denominator
Ratio(n, d) ==
    LET g == gcd(Magnitude(n), Magnitude(d))
        sgn == IF d < 0 THEN 0 - 1 ELSE 1
    IN [null |-> FALSE, num |-> sgn * (n \div g), den |-> sgn * (d \div g)]

\* SUM(...) of a group, row by row
RECURSIVE SUM(_)
SUM(col) == IF col = <<>> THEN 0 ELSE SUM(SubSeq(col, 1, Len(col) - 1)) + col[Len(col)]

Column(rows, F(_)) == [i \in 1..Len(rows) |-> F(rows[i])]

\* string order of the dates of the vocabulary
dateOrd(d) ==
    CASE d = "2024-01-15" -> 1
      [] d = "2024-01-15T10:30:00" -> 2
      [] d = "2024-01-16" -> 3
      [] d = "2024-02-01" -> 4
      [] OTHER -> 0

MinDate(rows) ==
    CHOOSE d \in {rows[i].date : i \in 1..Len(rows)} :
        \A i \in 1..Len(rows) : dateOrd(d) <= dateOrd(rows[i].date)

MaxDate(rows) ==
    CHOOSE d \in {rows[i].date : i \in 1..Len(rows)} :
        \A i \in 1..Len(rows) : dateOrd(d) >= dateOrd(rows[i].date)

\* type IN ('buy','transfer_in')
acquiring(type) == type \in {"buy", "transfer_in"}

\* the disposing types without transfer_out
disposing_sellOnly(type) == type = "sell"

\* type IN ('sell','transfer_out')
disposing(type) == type \in {"sell", "transfer_out"}

\* SUM(CASE WHEN acquiring THEN quantity ELSE 0 END) -
\* SUM(CASE WHEN disposing THEN quantity ELSE 0 END)
quantityOf(rows) ==
    LET acq(r) == IF acquiring(r.type) THEN r.quantity ELSE 0
        dis(r) == IF disposing(r.type) THEN r.quantity ELSE 0
    IN SUM(Column(rows, acq)) - SUM(Column(rows, dis))

\* avg_cost divided by the net quantity instead of the acquired quantity
avg_cost_overNetQuantity(rows) ==
    LET notional(r) == IF acquiring(r.type) THEN r.quantity * r.price ELSE 0
    IN IF quantityOf(rows) = 0 THEN NULL
       ELSE Ratio(SUM(Column(rows, notional)), quantityOf(rows))

\* SUM(CASE WHEN acquiring THEN quantity * price ELSE 0 END) /
\* NULLIF(SUM(CASE WHEN acquiring THEN quantity ELSE 0 END), 0)
avg_cost(rows) ==
    LET notional(r) == IF acquiring(r.type) THEN r.quantity * r.price ELSE 0
        acq(r) == IF acquiring(r.type) THEN r.quantity ELSE 0
    IN IF SUM(Column(rows, acq)) = 0 THEN NULL
       ELSE Ratio(SUM(Column(rows, notional)), SUM(Column(rows, acq)))

\* SUM(CASE WHEN type = 'buy' THEN quantity * price + fee
\*          WHEN type = 'sell' THEN -(quantity * price - fee) ELSE 0 END)
\* kept as its two parts: notional in units of 1e-18 and fees in units of
\* 1e-9; a NULL fee makes the term NULL, which SUM leaves out
total_cost(rows) ==
    LET counted(r) == ~(r.type \in {"buy", "sell"} /\ r.fee.nan)
        terms == SelectSeq(rows, counted)
        notional(r) == IF r.type = "buy" THEN r.quantity * r.price
                       ELSE IF r.type = "sell" THEN 0 - r.quantity * r.price ELSE 0
        fees(r) == IF r.type \in {"buy", "sell"} THEN r.fee.v ELSE 0
    IN [null |-> terms = <<>>, notional |-> SUM(Column(terms, notional)),
        fees |-> SUM(Column(terms, fees))]

(***************************************************************************)
(* The holdings queries                                                    *)
(***************************************************************************)
\* GET /accounts/:id/holdings: WHERE account_id = ? GROUP BY symbol
\* HAVING quantity > 0.00000001 (the order of the rows is left out)
holdingsOfAccount(accts, led, id) ==
    IF id \notin DOMAIN accts THEN [status |-> 404, body |-> {}]
    ELSE LET mine(r) == r.account_id = id
             rows == SelectSeq(led, mine)
             group(s) == LET same(r) == r.symbol = s IN SelectSeq(rows, same)
             all == {[symbol |-> s,
                      quantity |-> quantityOf(group(s)),
                      avg_cost |-> avg_cost(group(s)),
                      total_cost |-> total_cost(group(s)),
                      transaction_count |-> Len(group(s)),
                      first_transaction |-> MinDate(group(s)),
                      last_transaction |-> MaxDate(group(s))] :
                     s \in {rows[i].symbol : i \in 1..Len(rows)}}
         IN [status |-> 200, body |-> {h \in all : h.quantity > HavingEps}]

\* the rows of GROUP BY t.symbol, a.id over transactions JOIN accounts,
\* before HAVING
holdingGroups(accts, led) ==
    LET joined(r) == r.account_id \in DOMAIN accts
        rows == SelectSeq(led, joined)
        group(k) == LET same(r) == r.symbol = k[1] /\ r.account_id = k[2] IN SelectSeq(rows, same)
    IN {[symbol |-> k[1], account_id |-> k[2], account_currency |-> accts[k[2]].currency,
         quantity |-> quantityOf(group(k)), avg_cost |-> avg_cost(group(k))] :
        k \in {<<rows[i].symbol, rows[i].account_id>> : i \in 1..Len(rows)}}

\* the holdings query of GET /dashboard/summary
summaryHoldings(accts, led) == {h \in holdingGroups(accts, led) : h.quantity > HavingEps}

\* the holdings query of POST /daily-wealth
snapshotHoldings(accts, led) == {h \in holdingGroups(accts, led) : h.quantity > HavingEps}

\* let costBasis = h.quantity * (h.avg_cost || 0), in units of 1e-18
costBasis(h) ==
    IF h.avg_cost.null THEN Ratio(0, 1) ELSE Ratio(h.quantity * h.avg_cost.num, h.avg_cost.den)

(***************************************************************************)
(* GET /portfolio/history: the replay of the ledger                        *)
(***************************************************************************)
\* ORDER BY t.date ASC: rows of one date keep their insertion order
RECURSIVE orderByDate(_)
orderByDate(rows) ==
    IF rows = <<>> THEN <<>>
    ELSE LET last == rows[Len(rows)]
             sorted == orderByDate(SubSeq(rows, 1, Len(rows) - 1))
             notAfter(r) == dateOrd(r.date) <= dateOrd(last.date)
             after(r) == dateOrd(r.date) > dateOrd(last.date)
         IN SelectSeq(sorted, notAfter) \o <<last>> \o SelectSeq(sorted, after)

\* the transactions the route reads; account_id 0 stands for no filter
historyTransactions(led, account_id) ==
    LET wanted(r) == account_id = 0 \/ r.account_id = account_id
    IN orderByDate(SelectSeq(led, wanted))

\* ['buy', 'transfer_in', 'dividend'].includes(tx.type)
historyAcquiring(type) == type \in {"buy", "transfer_in", "dividend"}

\* one turn of the loops over transactions
applyTx(map, tx) ==
    LET m == IF tx.symbol \in DOMAIN map THEN map ELSE map @@ (tx.symbol :> 0)
    IN [m EXCEPT ![tx.symbol] =
            IF historyAcquiring(tx.type) THEN @ + tx.quantity
            ELSE IF disposing(tx.type) THEN @ - tx.quantity
            ELSE @]

RECURSIVE replay(_, _)
replay(transactions, n) ==
    IF n = 0 THEN <<>> ELSE applyTx(replay(transactions, n - 1), transactions[n])

holdingMap(transactions) == replay(transactions, Len(transactions))

activeSymbols(transactions) ==
    {sym \in DOMAIN holdingMap(transactions) : holdingMap(transactions)[sym] > HavingEps}

\* txIndex after the while loop for dateStr
RECURSIVE txIndexAt(_, _, _)
txIndexAt(transactions, dateStr, i) ==
    IF i < Len(transactions) /\ dateOrd(transactions[i + 1].date) <= dateOrd(dateStr)
    THEN txIndexAt(transactions, dateStr, i + 1) ELSE i

runningHoldings(transactions, dateStr) ==
    replay(transactions, txIndexAt(transactions, dateStr, 0))

\* totalCost of one date: quantity * price of the buys and transfers in up
\* to that date
historyCost(transactions, dateStr) ==
    LET upTo(r) == dateOrd(r.date) <= dateOrd(dateStr)
        cost(r) == IF r.type \in {"buy", "transfer_in"} THEN r.quantity * r.price ELSE 0
    IN SUM(Column(SelectSeq(transactions, upTo), cost))

(***************************************************************************)
(* POST /transactions                                                      *)
(***************************************************************************)
\* a JSON body; a number left out of it is undefined, which || treats as
\* it treats NaN
Body(account_id, symbol, type, quantity, price, fee, date) ==
    [account_id |-> account_id, symbol |-> symbol, type |-> type, quantity |-> quantity,
     price |-> price, fee |-> fee, currency |-> "", date |-> date, notes |-> ""]

\* quantities in units of 1e-9, prices in units of 1e-9
TxInputs ==
    { Body(1, "AAPL", "buy", Num(30), Num(2), Num(5), "2024-01-15"),
      Body(1, "aapl", "buy", Num(20), Num(3), NaN, "2024-02-01"),
      Body(1, "AAPL", "transfer_in", Num(20), Num(2), NaN, "2024-01-15"),
      Body(1, "AAPL", "sell", Num(20), Num(3), Num(5), "2024-02-01"),
      Body(1, "AAPL", "transfer_out", Num(30), Num(2), NaN, "2024-02-01"),
      Body(1, "AAPL", "dividend", Num(20), Num(1), Num(5), "2024-02-01"),
      Body(1, "AAPL", "interest", Num(20), Num(1), NaN, "2024-01-15"),
      Body(1, "AAPL", "fee", Num(20), Num(1), NaN, "2024-02-01"),
      Body(1, "MSFT", "buy", Num(20), Num(2), NaN, "2024-01-15"),
      Body(2, "AAPL", "buy", Num(30), Num(3), NaN, "2024-01-15"),
      Body(1, "AAPL", "buy", NaN, Num(2), NaN, "2024-01-15"),
      Body(1, "AAPL", "sell", Num(-20), Num(2), NaN, "2024-01-15"),
      Body(1, "", "buy", Num(20), Num(2), NaN, "2024-01-15"),
      Body(3, "AAPL", "buy", Num(20), Num(2), NaN, "2024-01-15"),
      Body(1, "AAPL", "split", Num(20), Num(2), NaN, "2024-01-15") }

\* 400 when a required field is missing, 404 when the account does not
\* exist, 500 when the INSERT fails; otherwise the row is stored
CreateTransaction(in) ==
    /\ Len(ledger) < MaxTx
    /\ LET tx == [symbol |-> toUpperCase(in.symbol), type |-> in.type,
                  quantity |-> OrZero(in.quantity), price |-> OrZero(in.price),
                  fee |-> OrZero(in.fee), currency |-> OrElse(in.currency, "EUR"),
                  date |-> in.date, notes |-> OrElse(in.notes, "")]
       IN IF in.account_id = 0 \/ in.symbol = "" \/ in.type = "" \/ in.date = ""
             THEN UNCHANGED <<ledger, nextId>>
          ELSE IF in.account_id \notin DOMAIN accounts
             THEN UNCHANGED <<ledger, nextId>>
          ELSE IF InsertError(accounts, in.account_id, tx) # ""
             THEN UNCHANGED <<ledger, nextId>>
          ELSE /\ ledger' = Append(ledger, StoredRow(nextId, in.account_id, tx))
               /\ nextId' = nextId + 1
    /\ UNCHANGED <<accounts, nextAccountId, calls, requests, uploads, sessions, admitted, market>>

NextLedger == \E in \in TxInputs : CreateTransaction(in)

SpecLedger == Init /\ [][NextLedger]_vars

(***************************************************************************)
(* Holdings: quantity                                                      *)
(***************************************************************************)
\* the sum of f over a set of indices, in no particular order
RECURSIVE SetSum(_, _)
SetSum(f, S) ==
    IF S = {} THEN 0
    ELSE LET x == CHOOSE y \in S : TRUE IN f[x] + SetSum(f, S \ {x})

RowsOf(led, sym, acc, types) ==
    {i \in 1..Len(led) : led[i].symbol = sym /\ led[i].account_id = acc /\ led[i].type \in types}

Quantities(led) == [i \in 1..Len(led) |-> led[i].quantity]

NetQuantity(led, sym, acc) ==
    SetSum(Quantities(led), RowsOf(led, sym, acc, {"buy", "transfer_in"}))
    - SetSum(Quantities(led), RowsOf(led, sym, acc, {"sell", "transfer_out"}))

LedgerSymbols == {"AAPL", "MSFT"}

WithoutIncome(led) ==
    LET kept(r) == r.type \notin {"dividend", "interest", "fee"} IN SelectSeq(led, kept)

CostFigures(h) ==
    [symbol |-> h.symbol, quantity |-> h.quantity, avg_cost |-> h.avg_cost,
     total_cost |-> h.total_cost]

QuantityIn(map, sym) == IF sym \in DOMAIN map THEN map[sym] ELSE 0

HistoryDates == {"2024-01-15", "2024-02-01"}

PerAccountUnaffected(led) ==
    \A acc \in DOMAIN accounts :
        {CostFigures(h) : h \in holdingsOfAccount(accounts, led, acc).body}
            = {CostFigures(h) : h \in holdingsOfAccount(accounts, WithoutIncome(led), acc).body}

SummaryUnaffected(led) ==
    /\ summaryHoldings(accounts, led) = summaryHoldings(accounts, WithoutIncome(led))
    /\ snapshotHoldings(accounts, led) = snapshotHoldings(accounts, WithoutIncome(led))

HistoryUnaffected(led) ==
    \A filter \in {0} \cup DOMAIN accounts :
        LET with == historyTransactions(led, filter)
            without == historyTransactions(WithoutIncome(led), filter)
        IN /\ activeSymbols(with) = activeSymbols(without)
           /\ \A d \in HistoryDates :
                 /\ historyCost(with, d) = historyCost(without, d)
                 /\ \A sym \in LedgerSymbols :
                       QuantityIn(runningHoldings(with, d), sym)
                           = QuantityIn(runningHoldings(without, d), sym)

\* C8: the dividend, interest and fee rows of a ledger change no symbol's
\* quantity and no cost figure in the per-account holdings, in the
\* holdings of the dashboard summary and of the snapshot, and in the
\* replay of the portfolio history: each gives what it gives for the
\* ledger without these rows.
C8_IncomeRowsChangeNothing ==
    /\ PerAccountUnaffected(ledger)
    /\ SummaryUnaffected(ledger)
    /\ HistoryUnaffected(ledger)

(***************************************************************************)
(* Holdings: average cost                                                  *)
(***************************************************************************)
Notionals(led) == [i \in 1..Len(led) |-> led[i].quantity * led[i].price]

\* sum(quantity * price) / sum(quantity) over the buys and transfers in of
\* the pair, taken as a set of rows; NULL when they add up to no quantity
WeightedMean(led, sym, acc) ==
    LET rows == RowsOf(led, sym, acc, {"buy", "transfer_in"})
    IN IF SetSum(Quantities(led), rows) = 0 THEN NULL
       ELSE Ratio(SetSum(Notionals(led), rows), SetSum(Quantities(led), rows))

\* avg_cost of the pair in the grouped query; NULL when the pair has no row
AvgCostOf(led, sym, acc) ==
    LET g == {h \in holdingGroups(accounts, led) : h.symbol = sym /\ h.account_id = acc}
    IN IF g = {} THEN NULL ELSE (CHOOSE h \in g : TRUE).avg_cost

Swap(led, i) == [led EXCEPT ![i] = led[i + 1], ![i + 1] = led[i]]

WithoutDisposals(led) ==
    LET kept(r) == r.type \notin {"sell", "transfer_out"} IN SelectSeq(led, kept)

\* C9: avg_cost of a (symbol, account) pair is sum(quantity*price) /
\* sum(quantity) over its buy and transfer_in rows, NULL when that quantity
\* is 0; exchanging two neighbouring rows of the ledger or dropping its
\* sell and transfer_out rows leaves it as it is; the per-account query
\* reports the same number; a NULL avg_cost enters the cost basis as 0.
C9_AverageCost ==
    \A acc \in DOMAIN accounts : \A sym \in LedgerSymbols :
        /\ AvgCostOf(ledger, sym, acc) = WeightedMean(ledger, sym, acc)
        /\ \A i \in 1..(Len(ledger) - 1) :
              AvgCostOf(Swap(ledger, i), sym, acc) = AvgCostOf(ledger, sym, acc)
        /\ AvgCostOf(WithoutDisposals(ledger), sym, acc) = AvgCostOf(ledger, sym, acc)
        /\ \A h \in holdingsOfAccount(accounts, ledger, acc).body :
              h.symbol = sym => h.avg_cost = WeightedMean(ledger, sym, acc)
        /\ \A h \in summaryHoldings(accounts, ledger) :
              (h.symbol = sym /\ h.account_id = acc) =>
                  IF WeightedMean(ledger, sym, acc).null THEN costBasis(h) = Ratio(0, 1)
                  ELSE costBasis(h) = Ratio(h.quantity * WeightedMean(ledger, sym, acc).num,
                                            WeightedMean(ledger, sym, acc).den)

\* 30 at 2 and 20 at 3 bought, 20 sold: avg_cost is 120/50 = 12/5, not the
\* plain mean 5/2 and not 120/30
C9_Witness ==
    /\ Len(ledger) = 3
    /\ RowsOf(ledger, "AAPL", 1, {"sell"}) # {}
    /\ Cardinality(RowsOf(ledger, "AAPL", 1, {"buy"})) = 2
    /\ AvgCostOf(ledger, "AAPL", 1) = [null |-> FALSE, num |-> 12, den |-> 5]
    /\ \E h \in summaryHoldings(accounts, ledger) : h.quantity = 30 /\ costBasis(h) = Ratio(72, 1)

(***************************************************************************)
(* Currency conversion                                                     *)
(***************************************************************************)
\* the number 1
One == Ratio(1, 1)

RatioMul(a, b) == Ratio(a.num * b.num, a.den * b.den)

RatioAdd(a, b) == Ratio(a.num * b.den + b.num * a.den, a.den * b.den)

RateRows(rates, from, to) == {r \in rates : r.from_currency = from /\ r.to_currency = to}

\* rates[`${from}_${to}`] || 1 over the map built from all rate rows: a
\* missing key and a rate of 0 both give 1
rateOr1(rates, from, to) ==
    IF RateRows(rates, from, to) = {} THEN One
    ELSE LET r == CHOOSE x \in RateRows(rates, from, to) : TRUE
         IN IF r.rate.num = 0 THEN One ELSE r.rate

\* user ? user.base_currency : 'EUR'
baseCurrencyOf(usrs) == IF usrs = <<>> THEN "EUR" ELSE usrs[1].base_currency

\* one turn of the loop over holdings with the market value left in the
\* currency of the price
valueOfHolding_unconverted(h, prices, rates, baseCurrency) ==
    LET priceData == IF h.symbol \in DOMAIN prices THEN prices[h.symbol]
                     ELSE [price |-> 0, currency |-> "USD"]
    IN [account_id |-> h.account_id,
        market_value |-> Ratio(h.quantity * priceData.price, 1),
        cost_basis |-> IF h.account_currency # "" /\ h.account_currency # baseCurrency
                       THEN RatioMul(costBasis(h), rateOr1(rates, h.account_currency, baseCurrency))
                       ELSE costBasis(h)]

\* one turn of the loop over holdings: market value and cost basis of a
\* holding in the base currency, in units of 1e-18
valueOfHolding(h, prices, rates, baseCurrency) ==
    LET priceData == IF h.symbol \in DOMAIN prices THEN prices[h.symbol]
                     ELSE [price |-> 0, currency |-> "USD"]
        priceCurrency == OrElse(priceData.currency, "USD")
        marketValue == Ratio(h.quantity * priceData.price, 1)
    IN [account_id |-> h.account_id,
        market_value |-> IF priceCurrency # baseCurrency
                         THEN RatioMul(marketValue, rateOr1(rates, priceCurrency, baseCurrency))
                         ELSE marketValue,
        cost_basis |-> IF h.account_currency # "" /\ h.account_currency # baseCurrency
                       THEN RatioMul(costBasis(h), rateOr1(rates, h.account_currency, baseCurrency))
                       ELSE costBasis(h)]

\* x += ... over a set of holding values
RECURSIVE sumField(_, _)
sumField(values, field) ==
    IF values = {} THEN Ratio(0, 1)
    ELSE LET v == CHOOSE x \in values : TRUE
         IN RatioAdd(v[field], sumField(values \ {v}, field))

\* total_wealth, total_cost and the per-account sums of GET /dashboard/summary,
\* from the holdings and the prices resolved for their symbols
summaryTotals(holdings, prices, rates, baseCurrency) ==
    LET values == {[holding |-> h, value |-> valueOfHolding(h, prices, rates, baseCurrency)] :
                    h \in holdings}
        flat == {[key |-> <<x.holding.symbol, x.holding.account_id>>,
                  account_id |-> x.value.account_id,
                  market_value |-> x.value.market_value,
                  cost_basis |-> x.value.cost_basis] : x \in values}
        of(a) == {v \in flat : v.account_id = a}
    IN [total_wealth |-> sumField(flat, "market_value"),
        total_cost |-> sumField(flat, "cost_basis"),
        base_currency |-> baseCurrency,
        accounts |-> {[account_id |-> a, market_value |-> sumField(of(a), "market_value"),
                       cost_basis |-> sumField(of(a), "cost_basis"),
                       holdings_count |-> Cardinality(of(a))] :
                      a \in {v.account_id : v \in flat}},
        holdings_count |-> Cardinality(holdings)]

RatioSub(a, b) == RatioAdd(a, Ratio(0 - b.num, b.den))

\* a / b for b # 0
RatioDiv(a, b) == Ratio(a.num * b.den, a.den * b.num)

\* the gain as a fraction of the cost, not as a percentage
total_gain_percent_fraction(totalWealth, totalCost) ==
    IF totalCost.num > 0
    THEN RatioDiv(RatioSub(totalWealth, totalCost), totalCost)
    ELSE Ratio(0, 1)

\* totalCost > 0 ? ((totalWealth - totalCost) / totalCost) * 100 : 0
total_gain_percent(totalWealth, totalCost) ==
    IF totalCost.num > 0
    THEN RatioMul(RatioDiv(RatioSub(totalWealth, totalCost), totalCost), Ratio(100, 1))
    ELSE Ratio(0, 1)

\* SELECT * FROM price_cache WHERE symbol = ? for every symbol that has a
\* row: the prices of any age, by symbol
cachedPrices(cache) ==
    [s \in {r.symbol : r \in cache} |-> CHOOSE r \in cache : r.symbol = s]

\* the totals POST /daily-wealth stores, from the cached prices of any age
snapshotTotals(accts, led, cache, rates, usrs) ==
    LET t == summaryTotals(snapshotHoldings(accts, led), cachedPrices(cache), rates,
                           baseCurrencyOf(usrs))
    IN [total_wealth |-> t.total_wealth, total_cost |-> t.total_cost,
        base_currency |-> t.base_currency]

(***************************************************************************)
(* The currency routes                                                     *)
(***************************************************************************)
\* a rate left out of the body
Undefined == [null |-> TRUE, num |-> 0, den |-> 1]

RateInputs ==
    { [from_currency |-> "USD", to_currency |-> "EUR", rate |-> Ratio(92, 100)],
      [from_currency |-> "usd", to_currency |-> "eur", rate |-> Ratio(1, 2)],
      [from_currency |-> "EUR", to_currency |-> "USD", rate |-> Ratio(109, 100)],
      [from_currency |-> "GBP", to_currency |-> "EUR", rate |-> Ratio(117, 100)],
      [from_currency |-> "EUR", to_currency |-> "EUR", rate |-> Ratio(2, 1)],
      [from_currency |-> "USD", to_currency |-> "", rate |-> Ratio(1, 2)],
      [from_currency |-> "USD", to_currency |-> "EUR", rate |-> Undefined] }

ConvertQueries ==
    { [from |-> "USD", to |-> "EUR", amount |-> "0.00000003"],
      [from |-> "usd", to |-> "EUR", amount |-> "0.00000003"],
      [from |-> "EUR", to |-> "USD", amount |-> "0.00000003"],
      [from |-> "EUR", to |-> "GBP", amount |-> "0.00000003"],
      [from |-> "GBP", to |-> "USD", amount |-> "0.00000003"],
      [from |-> "EUR", to |-> "eur", amount |-> "0.00000003"],
      [from |-> "EUR", to |-> "EUR", amount |-> "0.00000003"],
      [from |-> "USD", to |-> "EUR", amount |-> "abc"],
      [from |-> "USD", to |-> "", amount |-> "0.00000003"] }

\* POST /currencies: INSERT OR REPLACE on UNIQUE(from_currency, to_currency).
\* The id of a rate row is left out: the pair names the row.
SaveRate(in) ==
    /\ IF in.from_currency = "" \/ in.to_currency = "" \/ in.rate.null
          THEN /\ response' = [route |-> "POST /currencies", status |-> 400]
               /\ UNCHANGED currency_rates
       ELSE LET from == toUpperCase(in.from_currency)
                to == toUpperCase(in.to_currency)
                saved == [from_currency |-> from, to_currency |-> to, rate |-> in.rate]
            IN /\ currency_rates' = (currency_rates \ RateRows(currency_rates, from, to)) \cup {saved}
               /\ response' = [route |-> "POST /currencies", status |-> 201, saved |-> saved]
    /\ UNCHANGED <<accounts, nextAccountId, ledger, nextId, calls, requests, uploads, sessions,
                   admitted, price_cache, users,
                   now, lookups, daily_wealth>>

\* DELETE /currencies/:id
DeleteRate(from, to) ==
    /\ IF RateRows(currency_rates, from, to) = {}
          THEN /\ response' = [route |-> "DELETE /currencies", status |-> 404]
               /\ UNCHANGED currency_rates
       ELSE /\ currency_rates' = currency_rates \ RateRows(currency_rates, from, to)
            /\ response' = [route |-> "DELETE /currencies", status |-> 200]
    /\ UNCHANGED <<accounts, nextAccountId, ledger, nextId, calls, requests, uploads, sessions,
                   admitted, price_cache, users,
                   now, lookups, daily_wealth>>

\* the JSON number amount * rate; NaN when the amount does not parse
Times(amount, rate) ==
    [nan |-> amount.nan, val |-> IF amount.nan THEN Ratio(0, 1) ELSE Ratio(amount.v * rate.num, rate.den)]

\* GET /currencies/convert with the rate looked up before the currencies are
\* compared
convert_lookupFirst(rates, q) ==
    IF q.from = "" \/ q.to = "" \/ q.amount = ""
    THEN [route |-> "GET /currencies/convert", status |-> 400, query |-> q]
    ELSE IF RateRows(rates, toUpperCase(q.from), toUpperCase(q.to)) # {}
    THEN LET rate == CHOOSE r \in RateRows(rates, toUpperCase(q.from), toUpperCase(q.to)) : TRUE
         IN [route |-> "GET /currencies/convert", status |-> 200, query |-> q,
             result |-> Times(parseFloat(q.amount), rate.rate), rate |-> rate.rate]
    ELSE IF toUpperCase(q.from) = toUpperCase(q.to)
    THEN [route |-> "GET /currencies/convert", status |-> 200, query |-> q,
          result |-> Times(parseFloat(q.amount), One), rate |-> One]
    ELSE [route |-> "GET /currencies/convert", status |-> 404, query |-> q]

\* GET /currencies/convert
convert(rates, q) ==
    IF q.from = "" \/ q.to = "" \/ q.amount = ""
    THEN [route |-> "GET /currencies/convert", status |-> 400, query |-> q]
    ELSE IF toUpperCase(q.from) = toUpperCase(q.to)
    THEN [route |-> "GET /currencies/convert", status |-> 200, query |-> q,
          result |-> Times(parseFloat(q.amount), One), rate |-> One]
    ELSE IF RateRows(rates, toUpperCase(q.from), toUpperCase(q.to)) = {}
    THEN [route |-> "GET /currencies/convert", status |-> 404, query |-> q]
    ELSE LET rate == CHOOSE r \in RateRows(rates, toUpperCase(q.from), toUpperCase(q.to)) : TRUE
         IN [route |-> "GET /currencies/convert", status |-> 200, query |-> q,
             result |-> Times(parseFloat(q.amount), rate.rate), rate |-> rate.rate]

Convert(q) ==
    /\ response' = convert(currency_rates, q)
    /\ UNCHANGED <<accounts, nextAccountId, ledger, nextId, calls, requests, uploads, sessions,
                   admitted, currency_rates,
                   price_cache, users, now, lookups, daily_wealth>>

\* a bought holding in each account
ValuedLedger ==
    << StoredRow(1, 1, [symbol |-> "AAPL", type |-> "buy", quantity |-> Num(30), price |-> Num(2),
                        fee |-> Num(0), currency |-> "EUR", date |-> "2024-01-15", notes |-> ""]),
       StoredRow(2, 2, [symbol |-> "MSFT", type |-> "buy", quantity |-> Num(20), price |-> Num(3),
                        fee |-> Num(0), currency |-> "EUR", date |-> "2024-01-15", notes |-> ""]) >>

PriceCaches ==
    { {},
      {[symbol |-> "AAPL", price |-> 3, currency |-> "GBP", updated_at |-> 0]},
      {[symbol |-> "AAPL", price |-> 3, currency |-> "USD", updated_at |-> 0],
       [symbol |-> "MSFT", price |-> 4, currency |-> "EUR", updated_at |-> 0]} }

\* accounts in EUR or USD holding two positions, cached prices in some
\* currencies, a user with a base currency or none, and no rate yet
InitRates ==
    /\ accounts \in [AccountIds -> {[currency |-> "EUR"], [currency |-> "USD"]}]
    /\ ledger = ValuedLedger
    /\ nextId = 3
    /\ nextAccountId = 3
    /\ sessions = <<>>
    /\ admitted = NoRequest
    /\ calls = <<>>
    /\ requests = {}
    /\ uploads = {}
    /\ currency_rates = {}
    /\ price_cache \in PriceCaches
    /\ users \in {<<>>, <<[base_currency |-> "EUR"]>>, <<[base_currency |-> "USD"]>>}
    /\ response = NoResponse
    /\ now = 0
    /\ lookups = <<>>
    /\ daily_wealth = {}

NextRates ==
    \/ \E in \in RateInputs : SaveRate(in)
    \/ \E from, to \in {"USD", "EUR", "GBP"} : DeleteRate(from, to)
    \/ \E q \in ConvertQueries : Convert(q)

SpecRates == InitRates /\ [][NextRates]_vars

(***************************************************************************)
(* Conversion without a stored rate                                        *)
(***************************************************************************)
HasRate(from, to) == RateRows(currency_rates, from, to) # {}

CachedCurrency(sym) ==
    IF \E r \in price_cache : r.symbol = sym
    THEN OrElse((CHOOSE r \in price_cache : r.symbol = sym).currency, "USD") ELSE "USD"

CachedPrice(sym) ==
    IF \E r \in price_cache : r.symbol = sym
    THEN (CHOOSE r \in price_cache : r.symbol = sym).price ELSE 0

\* the dashboard summary and the snapshot leave a market value or a cost
\* basis as it is when no rate from its currency to the base currency is
\* stored
SummaryMissingRateIsOne ==
    LET base == baseCurrencyOf(users)
    IN \A h \in summaryHoldings(accounts, ledger) :
          LET v == valueOfHolding(h, cachedPrices(price_cache), currency_rates, base)
          IN /\ ~HasRate(CachedCurrency(h.symbol), base)
                  => v.market_value = Ratio(h.quantity * CachedPrice(h.symbol), 1)
             /\ ~HasRate(h.account_currency, base) => v.cost_basis = costBasis(h)

TotalsMissingRateIsOne ==
    LET base == baseCurrencyOf(users)
        holdings == summaryHoldings(accounts, ledger)
        plain == {[key |-> <<h.symbol, h.account_id>>,
                   market_value |-> Ratio(h.quantity * CachedPrice(h.symbol), 1),
                   cost_basis |-> costBasis(h)] : h \in holdings}
    IN (\A h \in holdings : /\ ~HasRate(CachedCurrency(h.symbol), base)
                             /\ ~HasRate(h.account_currency, base))
          => /\ summaryTotals(holdings, cachedPrices(price_cache), currency_rates, base).total_wealth
                    = sumField(plain, "market_value")
             /\ summaryTotals(holdings, cachedPrices(price_cache), currency_rates, base).total_cost
                    = sumField(plain, "cost_basis")
             /\ snapshotTotals(accounts, ledger, price_cache, currency_rates, users).total_wealth
                    = sumField(plain, "market_value")
             /\ snapshotTotals(accounts, ledger, price_cache, currency_rates, users).total_cost
                    = sumField(plain, "cost_basis")

ConvertMissingRateIsOne ==
    (/\ response.route = "GET /currencies/convert"
     /\ response.query.from # "" /\ response.query.to # "" /\ response.query.amount # ""
     /\ toUpperCase(response.query.from) # toUpperCase(response.query.to)
     /\ ~HasRate(toUpperCase(response.query.from), toUpperCase(response.query.to)))
        => /\ response.status = 200
           /\ response.rate = One
           /\ response.result = Times(parseFloat(response.query.amount), One)

\* C10: converting between two different currencies with no stored rate
\* from the one to the other multiplies by 1 and is not an error, in the
\* dashboard summary, in the daily snapshot and in the convert operation,
\* whether or not the opposite rate is stored.
C10_MissingRateIsOne ==
    /\ SummaryMissingRateIsOne
    /\ TotalsMissingRateIsOne
    /\ ConvertMissingRateIsOne

(***************************************************************************)
(* Conversion between equal currencies                                     *)
(***************************************************************************)
\* GET /currencies/convert with equal currencies (compared in upper case)
\* answers the parsed amount with rate 1, whatever rate rows are stored
ConvertSameCurrency ==
    (/\ response.route = "GET /currencies/convert"
     /\ response.query.from # "" /\ response.query.to # "" /\ response.query.amount # ""
     /\ toUpperCase(response.query.from) = toUpperCase(response.query.to))
        => /\ response.status = 200
           /\ response.rate = One
           /\ response.result = Times(parseFloat(response.query.amount), One)
           /\ \A rates \in SUBSET currency_rates : convert(rates, response.query) = response

\* the dashboard summary and the snapshot leave a market value whose price
\* currency is the base currency, and a cost basis whose account currency is
\* the base currency, as they are, whatever rate rows are stored
SummarySameCurrency ==
    LET base == baseCurrencyOf(users)
    IN \A h \in summaryHoldings(accounts, ledger) :
          LET v == valueOfHolding(h, cachedPrices(price_cache), currency_rates, base)
          IN /\ CachedCurrency(h.symbol) = base
                  => v.market_value = Ratio(h.quantity * CachedPrice(h.symbol), 1)
             /\ h.account_currency = base => v.cost_basis = costBasis(h)

\* C11: conversion between equal currencies is the identity: the converted
\* amount is the amount itself with rate 1, in the convert operation and in
\* the dashboard valuation, without a rate lookup, also when a rate row from
\* the currency to itself with a value other than 1 is stored.
C11_SameCurrencyIdentity ==
    /\ ConvertSameCurrency
    /\ SummarySameCurrency

\* a row EUR -> EUR with rate 2 is stored, a conversion from EUR to EUR has
\* been answered, and a holding priced in the base currency EUR is valued
C11_Witness ==
    /\ \E r \in RateRows(currency_rates, "EUR", "EUR") : r.rate = Ratio(2, 1)
    /\ response.route = "GET /currencies/convert"
    /\ response.query.from = "EUR" /\ response.query.to = "EUR"
    /\ response.status = 200
    /\ response.result = [nan |-> FALSE, val |-> Ratio(30, 1)]
    /\ baseCurrencyOf(users) = "EUR"
    /\ \E h \in summaryHoldings(accounts, ledger) :
          /\ CachedCurrency(h.symbol) = "EUR" /\ h.account_currency = "EUR"
          /\ valueOfHolding(h, cachedPrices(price_cache), currency_rates, "EUR").market_value = Ratio(80, 1)

(***************************************************************************)
(* The price oracle: GET /quote/:symbol, POST /quotes and the price loop   *)
(* of GET /dashboard/summary.  The handlers are async: a handler runs up   *)
(* to its next await of the provider, and other requests and the clock     *)
(* move while it waits.  Of a cache row and of a quote the model keeps the *)
(* symbol, the price, the currency and updated_at (in minutes).            *)
(***************************************************************************)
FreshMinutes == 5   \* datetime('now', '-5 minutes')
MaxNow == 5         \* the clock stops here
MaxLookups == 1     \* price requests in one behaviour

\* SELECT * FROM price_cache WHERE symbol = ?
cacheRows(cache, symbol) == {r \in cache : r.symbol = symbol}

\* ... AND updated_at > datetime('now', '-5 minutes')
freshRows(cache, symbol, t) == {r \in cacheRows(cache, symbol) : r.updated_at > t - FreshMinutes}

\* .get(): the first row
get(rows) == CHOOSE r \in rows : TRUE

\* INSERT INTO price_cache without a conflict clause on the key
INSERT_keepOld(cache, data, t) ==
    cache \cup {[symbol |-> data.symbol, price |-> data.price, currency |-> data.currency,
                 updated_at |-> t]}

\* INSERT OR REPLACE INTO price_cache (...) VALUES (..., CURRENT_TIMESTAMP),
\* symbol being the PRIMARY KEY
INSERT_OR_REPLACE(cache, data, t) ==
    (cache \ cacheRows(cache, data.symbol))
        \cup {[symbol |-> data.symbol, price |-> data.price, currency |-> data.currency,
               updated_at |-> t]}

\* what yf.quote(symbol) does: it throws, or it answers a quote; a price of 0
\* stands for a quote without regularMarketPrice
Failed == [failed |-> TRUE]

Answers ==
    { Failed,
      [failed |-> FALSE, regularMarketPrice |-> 5, currency |-> "USD"],
      [failed |-> FALSE, regularMarketPrice |-> 6, currency |-> ""] }

\* { symbol, price: quote.regularMarketPrice || 0, currency: quote.currency || 'USD' }
quoteData(symbol, quote) ==
    [symbol |-> symbol, price |-> quote.regularMarketPrice,
     currency |-> OrElse(quote.currency, "USD")]

\* { ...stale, stale: true }
tagStale(row) ==
    [symbol |-> row.symbol, price |-> row.price, currency |-> row.currency,
     updated_at |-> row.updated_at, stale |-> TRUE]

\* the catch of GET /quote/:symbol without its look at the cache
quoteFallback_notFound(cache, symbol) ==
    [status |-> 404, body |-> [error |-> "Could not fetch price"]]

\* the catch of GET /quote/:symbol
quoteFallback(cache, symbol) ==
    IF cacheRows(cache, symbol) # {}
    THEN [status |-> 200, body |-> tagStale(get(cacheRows(cache, symbol)))]
    ELSE [status |-> 404, body |-> [error |-> "Could not fetch price"]]

\* the catches of POST /quotes
quotesFallback(cache, symbol, message) ==
    IF cacheRows(cache, symbol) # {}
    THEN tagStale(get(cacheRows(cache, symbol)))
    ELSE [symbol |-> symbol, price |-> 0, error |-> message]

\* updated_at: ''
NoTime == -1

\* the catch of the price loop of GET /dashboard/summary
summaryFallback(cache, symbol) ==
    IF cacheRows(cache, symbol) # {}
    THEN get(cacheRows(cache, symbol))
    ELSE [symbol |-> symbol, price |-> 0, currency |-> "USD", updated_at |-> NoTime]

\* the first loop of POST /quotes: fresh rows answer at once, the other
\* symbols are queued in upper case
RECURSIVE quotesCheck(_, _, _)
quotesCheck(cache, t, symbols) ==
    IF symbols = <<>> THEN [results |-> <<>>, toFetch |-> <<>>]
    ELSE LET s == toUpperCase(Head(symbols))
             rest == quotesCheck(cache, t, Tail(symbols))
         IN IF freshRows(cache, s, t) # {}
            THEN [results |-> rest.results @@ (s :> get(freshRows(cache, s, t))),
                  toFetch |-> rest.toFetch]
            ELSE [results |-> rest.results, toFetch |-> <<s>> \o rest.toFetch]

\* the global catch of POST /quotes
RECURSIVE quotesUnavailable(_, _, _)
quotesUnavailable(cache, toFetch, results) ==
    IF toFetch = <<>> THEN results
    ELSE quotesUnavailable(cache, Tail(toFetch),
            IF Head(toFetch) \in DOMAIN results THEN results
            ELSE (Head(toFetch) :> quotesFallback(cache, Head(toFetch), "Service unavailable"))
                    @@ results)

\* the price loop of GET /dashboard/summary up to its next yf.quote: fresh
\* rows are taken, the loop waits at the first symbol without one
RECURSIVE summaryScan(_, _, _, _)
summaryScan(cache, t, symbols, prices) ==
    IF symbols = <<>> THEN [prices |-> prices, toFetch |-> <<>>]
    ELSE IF freshRows(cache, Head(symbols), t) # {}
    THEN summaryScan(cache, t, Tail(symbols),
                     (Head(symbols) :> get(freshRows(cache, Head(symbols), t))) @@ prices)
    ELSE [prices |-> prices, toFetch |-> symbols]

\* the order of symbols as text
symbolOrd(s) ==
    CASE s = "AAPL" -> 1
      [] s = "MSFT" -> 2
      [] OTHER -> 0

\* [...new Set(holdings.map(h => h.symbol))], in the order of the groups
RECURSIVE inOrder(_)
inOrder(set) ==
    IF set = {} THEN <<>>
    ELSE LET first == CHOOSE x \in set : \A y \in set : symbolOrd(x) <= symbolOrd(y)
         IN <<first>> \o inOrder(set \ {first})

\* the response of GET /dashboard/summary from the holdings read at the
\* start of the request and the prices resolved for them; the rates and the
\* base currency are read when the price loop has ended
summaryBody(holdings, prices, rates, usrs) ==
    LET t == summaryTotals(holdings, prices, rates, baseCurrencyOf(usrs))
    IN [total_wealth |-> t.total_wealth,
        total_cost |-> t.total_cost,
        total_gain |-> RatioSub(t.total_wealth, t.total_cost),
        total_gain_percent |-> total_gain_percent(t.total_wealth, t.total_cost),
        base_currency |-> t.base_currency,
        accounts |-> t.accounts,
        holdings_count |-> t.holdings_count]

\* a request in flight or answered: the symbols asked for, the symbols still
\* to fetch (the provider is awaited for the first of them), the prices
\* found so far, and, as a record of what happened, the symbols yf.quote was
\* called for and its answers
Lookup(route, symbols, toFetch, results, holdings, calledFor) ==
    [route |-> route, symbols |-> symbols, toFetch |-> toFetch, results |-> results,
     holdings |-> holdings, pc |-> "fetch", status |-> 0, body |-> <<>>,
     calledFor |-> calledFor, answers |-> <<>>]

Done(l, status, body) == [l EXCEPT !.pc = "done", !.toFetch = <<>>, !.status = status, !.body = body]

Ledgers == <<accounts, nextAccountId, ledger, nextId, calls, requests, uploads, sessions, admitted>>

\* GET /quote/:symbol up to the call of the provider
StartQuote(symbol) ==
    /\ Len(lookups) < MaxLookups
    /\ LET s == toUpperCase(symbol)
           l == Lookup("quote", <<symbol>>, <<s>>, <<>>, {}, <<s>>)
       IN lookups' = Append(lookups,
                        IF freshRows(price_cache, s, now) # {}
                        THEN Done([l EXCEPT !.calledFor = <<>>], 200, get(freshRows(price_cache, s, now)))
                        ELSE l)
    /\ UNCHANGED <<Ledgers, currency_rates, price_cache, users, response, now, daily_wealth>>

QuoteBodies ==
    { [isArray |-> TRUE, symbols |-> <<"AAPL", "MSFT">>],
      [isArray |-> TRUE, symbols |-> <<"aapl", "AAPL">>],
      [isArray |-> TRUE, symbols |-> <<"MSFT">>],
      [isArray |-> FALSE, symbols |-> <<>>] }

\* POST /quotes up to the first call of the provider; loads: whether
\* getYahooFinance() succeeds
StartQuotes(body, loads) ==
    /\ Len(lookups) < MaxLookups
    /\ LET c == quotesCheck(price_cache, now, body.symbols)
           l == Lookup("quotes", body.symbols, c.toFetch, c.results, {}, <<>>)
       IN lookups' = Append(lookups,
                        IF ~body.isArray THEN Done(l, 400, [error |-> "symbols array required"])
                        ELSE IF c.toFetch = <<>> THEN Done(l, 200, c.results)
                        ELSE IF ~loads
                        THEN Done(l, 200, quotesUnavailable(price_cache, c.toFetch, c.results))
                        ELSE [l EXCEPT !.calledFor = <<Head(c.toFetch)>>])
    /\ UNCHANGED <<Ledgers, currency_rates, price_cache, users, response, now, daily_wealth>>

\* GET /dashboard/summary up to the first call of the provider; loads:
\* whether getYahooFinance() succeeds
summaryStart(holdings, cache, t, rates, usrs, loads) ==
    LET symbols == inOrder({h.symbol : h \in holdings})
        c == summaryScan(cache, t, symbols, <<>>)
        l == Lookup("summary", symbols, c.toFetch, c.prices, holdings, <<>>)
    IN IF symbols # <<>> /\ ~loads THEN Done(l, 500, [error |-> "import failed"])
       ELSE IF c.toFetch = <<>> THEN Done(l, 200, summaryBody(holdings, c.prices, rates, usrs))
       ELSE [l EXCEPT !.calledFor = <<Head(c.toFetch)>>]

StartSummary(loads) ==
    /\ Len(lookups) < MaxLookups
    /\ lookups' = Append(lookups, summaryStart(summaryHoldings(accounts, ledger), price_cache, now,
                                               currency_rates, users, loads))
    /\ UNCHANGED <<Ledgers, currency_rates, price_cache, users, response, now, daily_wealth>>

\* yf.quote answers the request of GET /quote/:symbol
AnswerQuote(id, answer) ==
    LET l == [lookups[id] EXCEPT !.answers = Append(@, answer)]
        s == Head(l.toFetch)
    IN IF answer.failed
       THEN /\ lookups' = [lookups EXCEPT ![id] = Done(l, quoteFallback(price_cache, s).status,
                                                      quoteFallback(price_cache, s).body)]
            /\ UNCHANGED price_cache
       ELSE /\ price_cache' = INSERT_OR_REPLACE(price_cache, quoteData(s, answer), now)
            /\ lookups' = [lookups EXCEPT ![id] = Done(l, 200, quoteData(s, answer))]

\* one turn of the second loop of POST /quotes with the inner try left out:
\* a failed fetch ends the loop in the outer catch
quotesStep_noInnerCatch(cache, t, lookup, answer) ==
    LET l == [lookup EXCEPT !.answers = Append(@, answer)]
        s == Head(l.toFetch)
        results == (s :> quoteData(s, answer)) @@ l.results
        rest == Tail(l.toFetch)
    IN IF answer.failed
       THEN [cache |-> cache,
             lookup |-> Done(l, 200, quotesUnavailable(cache, l.toFetch, l.results))]
       ELSE [cache |-> INSERT_OR_REPLACE(cache, quoteData(s, answer), t),
             lookup |-> IF rest = <<>> THEN Done([l EXCEPT !.results = results], 200, results)
                        ELSE [l EXCEPT !.results = results, !.toFetch = rest,
                                       !.calledFor = Append(@, Head(rest))]]

\* one turn of the second loop of POST /quotes: yf.quote has answered, the
\* loop goes on to the next queued symbol without looking at the cache again
quotesStep(cache, t, lookup, answer) ==
    LET l == [lookup EXCEPT !.answers = Append(@, answer)]
        s == Head(l.toFetch)
        entry == IF answer.failed THEN quotesFallback(cache, s, "fetch failed")
                 ELSE quoteData(s, answer)
        results == (s :> entry) @@ l.results
        rest == Tail(l.toFetch)
    IN [cache |-> IF answer.failed THEN cache
                  ELSE INSERT_OR_REPLACE(cache, quoteData(s, answer), t),
        lookup |-> IF rest = <<>> THEN Done([l EXCEPT !.results = results], 200, results)
                   ELSE [l EXCEPT !.results = results, !.toFetch = rest,
                                  !.calledFor = Append(@, Head(rest))]]

\* yf.quote answers the request of POST /quotes
AnswerQuotes(id, answer) ==
    /\ price_cache' = quotesStep(price_cache, now, lookups[id], answer).cache
    /\ lookups' = [lookups EXCEPT ![id] = quotesStep(price_cache, now, lookups[id], answer).lookup]

\* one turn of the price loop of GET /dashboard/summary: yf.quote has
\* answered, the loop goes on to the next symbol without a fresh row, or to
\* the totals
summaryStep(cache, t, lookup, answer, rates, usrs) ==
    LET l == [lookup EXCEPT !.answers = Append(@, answer)]
        s == Head(l.toFetch)
        written == IF answer.failed THEN cache
                   ELSE INSERT_OR_REPLACE(cache, quoteData(s, answer), t)
        entry == IF answer.failed THEN summaryFallback(cache, s)
                 ELSE [symbol |-> s, price |-> answer.regularMarketPrice,
                       currency |-> OrElse(answer.currency, "USD"), updated_at |-> t]
        c == summaryScan(written, t, Tail(l.toFetch), (s :> entry) @@ l.results)
    IN [cache |-> written,
        lookup |-> IF c.toFetch = <<>>
                   THEN Done([l EXCEPT !.results = c.prices], 200,
                             summaryBody(l.holdings, c.prices, rates, usrs))
                   ELSE [l EXCEPT !.results = c.prices, !.toFetch = c.toFetch,
                                  !.calledFor = Append(@, Head(c.toFetch))]]

\* yf.quote answers the request of GET /dashboard/summary
AnswerSummary(id, answer) ==
    /\ price_cache' = summaryStep(price_cache, now, lookups[id], answer, currency_rates, users).cache
    /\ lookups' = [lookups EXCEPT ![id] =
                     summaryStep(price_cache, now, lookups[id], answer, currency_rates, users).lookup]

\* the provider answers a pending call
Answer(id, answer) ==
    /\ id \in DOMAIN lookups
    /\ lookups[id].pc = "fetch"
    /\ CASE lookups[id].route = "quote" -> AnswerQuote(id, answer)
         [] lookups[id].route = "quotes" -> AnswerQuotes(id, answer)
         [] lookups[id].route = "summary" -> AnswerSummary(id, answer)
    /\ UNCHANGED <<Ledgers, currency_rates, users, response, now, daily_wealth>>

\* time passes
Tick(minutes) ==
    /\ now + minutes <= MaxNow
    /\ now' = now + minutes
    /\ UNCHANGED <<Ledgers, currency_rates, price_cache, users, response, lookups, daily_wealth>>

\* two positions, a rate, a user, and a cache that is empty or holds a row
\* for AAPL or for both symbols
InitPrices ==
    /\ accounts = [a \in AccountIds |-> [currency |-> "EUR"]]
    /\ ledger = ValuedLedger
    /\ nextId = 3
    /\ nextAccountId = 3
    /\ sessions = <<>>
    /\ admitted = NoRequest
    /\ calls = <<>>
    /\ requests = {}
    /\ uploads = {}
    /\ currency_rates = {[from_currency |-> "USD", to_currency |-> "EUR", rate |-> Ratio(92, 100)]}
    /\ price_cache \in {{}, {[symbol |-> "AAPL", price |-> 3, currency |-> "USD", updated_at |-> 0]},
                          {[symbol |-> "AAPL", price |-> 3, currency |-> "USD", updated_at |-> 0],
                           [symbol |-> "MSFT", price |-> 4, currency |-> "EUR", updated_at |-> 0]}}
    /\ users = <<[base_currency |-> "EUR"]>>
    /\ response = NoResponse
    /\ now = 0
    /\ lookups = <<>>
    /\ daily_wealth = {}

NextPrices ==
    \/ \E symbol \in {"aapl", "MSFT"} : StartQuote(symbol)
    \/ \E body \in QuoteBodies, loads \in BOOLEAN : StartQuotes(body, loads)
    \/ \E loads \in BOOLEAN : StartSummary(loads)
    \/ \E id \in 1..MaxLookups, answer \in Answers : Answer(id, answer)
    \/ \E minutes \in {1, 4} : Tick(minutes)

SpecPrices == InitPrices /\ [][NextPrices]_vars

(***************************************************************************)
(* A failed price fetch                                                    *)
(***************************************************************************)
Last(seq) == seq[Len(seq)]

\* in this step yf.quote answers request id
Answered(id) ==
    /\ id \in DOMAIN lookups
    /\ lookups[id].pc = "fetch"
    /\ Len(lookups'[id].answers) = Len(lookups[id].answers) + 1

\* in this step the fetch that request id waits for fails
FetchFails(id) == Answered(id) /\ Last(lookups'[id].answers).failed

\* what the request holds for the symbol after the step: the response body
\* of GET /quote/:symbol, the entry of the symbol in the map otherwise
EntryAfter(id) ==
    IF lookups[id].route = "quote" THEN lookups'[id].body
    ELSE lookups'[id].results[Head(lookups[id].toFetch)]

\* the row of the symbol, of any age, tagged stale: true
IsStaleFallback(id) ==
    /\ cacheRows(price_cache, Head(lookups[id].toFetch)) # {}
    /\ EntryAfter(id) = tagStale(get(cacheRows(price_cache, Head(lookups[id].toFetch))))
    /\ lookups[id].route = "quote" => lookups'[id].status = 200

\* an answer that says the price is missing: a 404, or an entry with an
\* error in place of a currency
IsExplicitError(id) ==
    /\ cacheRows(price_cache, Head(lookups[id].toFetch)) = {}
    /\ IF lookups[id].route = "quote"
       THEN lookups'[id].status = 404 /\ "error" \in DOMAIN lookups'[id].body
       ELSE /\ "error" \in DOMAIN EntryAfter(id)
            /\ "currency" \notin DOMAIN EntryAfter(id)

FailureFallback(routes) ==
    \A id \in DOMAIN lookups :
        (FetchFails(id) /\ lookups[id].route \in routes)
            => (IsStaleFallback(id) \/ IsExplicitError(id))

\* the two quote routes answer a failed fetch with the tagged row or with an
\* error
QuoteRoutesFallback == [][FailureFallback({"quote", "quotes"})]_vars

\* C12: when the fetch of a price fails, quote, batch quotes and the
\* dashboard summary use the cache row of the symbol whatever its age, tagged
\* stale: true, and without a row they give an explicit not-found or error
\* result, never a made-up price.
C12_FetchFailureFallback == [][FailureFallback({"quote", "quotes", "summary"})]_vars

(***************************************************************************)
(* The freshness window and the upsert                                     *)
(***************************************************************************)
Range(seq) == {seq[i] : i \in DOMAIN seq}

\* in this step request id arrives
Started(id) == id \notin DOMAIN lookups /\ id \in DOMAIN lookups'

\* in this step request id calls yf.quote
CallBegins(id) ==
    /\ id \in DOMAIN lookups'
    /\ Len(lookups'[id].calledFor) > (IF id \in DOMAIN lookups THEN Len(lookups[id].calledFor) ELSE 0)

CalledSymbol(id) == Last(lookups'[id].calledFor)

\* the symbols of a request as the handler looks them up
Requested(l) ==
    IF l.route = "summary" THEN Range(l.symbols) ELSE {toUpperCase(x) : x \in Range(l.symbols)}

\* the provider is called only for a symbol without a fresh row at the
\* moment of the call
NoFreshRowAtCall(id) ==
    CallBegins(id) => freshRows(price_cache', CalledSymbol(id), now') = {}

\* GET /quote/:symbol and the dashboard look at the cache right before each
\* call; POST /quotes looks once, when the request arrives, and then calls
\* the provider for the queued symbols one after the other
NoFreshRowAtCheck(id) ==
    /\ (CallBegins(id) /\ lookups'[id].route # "quotes") => NoFreshRowAtCall(id)
    /\ (Started(id) /\ lookups'[id].route = "quotes")
          => \A s \in Range(lookups'[id].toFetch) \cup Range(lookups'[id].calledFor) :
                freshRows(price_cache, s, now) = {}
    /\ (CallBegins(id) /\ ~Started(id) /\ lookups'[id].route = "quotes")
          => /\ lookups'[id].toFetch = Tail(lookups[id].toFetch)
             /\ CalledSymbol(id) = Head(lookups'[id].toFetch)

\* a symbol with a fresh row when the request looks at the cache gets that
\* row, and looking leaves the cache as it is
FreshRowServed(id) ==
    /\ (Started(id) /\ lookups'[id].status \in {0, 200})
          => /\ price_cache' = price_cache
             /\ \A s \in Requested(lookups'[id]) :
                   (/\ freshRows(price_cache, s, now) # {}
                    /\ lookups'[id].route = "summary" => s \in DOMAIN lookups'[id].results)
                      => /\ s \notin Range(lookups'[id].calledFor)
                         /\ IF lookups'[id].route = "quote"
                            THEN lookups'[id].body = get(freshRows(price_cache, s, now))
                            ELSE lookups'[id].results[s] = get(freshRows(price_cache, s, now))
    /\ (Answered(id) /\ lookups[id].route = "summary")
          => \A s \in DOMAIN lookups'[id].results \ (DOMAIN lookups[id].results \cup {Head(lookups[id].toFetch)}) :
                /\ freshRows(price_cache', s, now) # {}
                /\ lookups'[id].results[s] = get(freshRows(price_cache', s, now))

\* after a fetch that succeeded the cache holds one row for the symbol, with
\* the price of the quote, and the rows of the other symbols are unchanged
UpsertOnSuccess(id) ==
    (Answered(id) /\ ~FetchFails(id))
        => LET s == Head(lookups[id].toFetch)
               quote == Last(lookups'[id].answers)
           IN /\ Cardinality(cacheRows(price_cache', s)) = 1
              /\ get(cacheRows(price_cache', s)).price = quote.regularMarketPrice
              /\ get(cacheRows(price_cache', s)).updated_at = now
              /\ price_cache' \ cacheRows(price_cache', s) = price_cache \ cacheRows(price_cache, s)

\* C13 as stated: no price lookup calls the provider for a symbol whose
\* cache row is younger than 5 minutes; it answers with that row and leaves
\* the cache unchanged; after a successful fetch the cache holds exactly one
\* row for the symbol, with the fetched price.
C13_FreshNeverFetched ==
    [][\A id \in 1..MaxLookups :
          NoFreshRowAtCall(id) /\ FreshRowServed(id) /\ UpsertOnSuccess(id)]_vars

\* C13: no price lookup calls the provider for a symbol whose cache row is
\* younger than 5 minutes when the request looks at the cache: it answers
\* with that row and leaves the cache unchanged; after a successful fetch the
\* cache holds exactly one row for the symbol, with the fetched price.
C13_FreshAtCheckNeverFetched ==
    [][\A id \in 1..MaxLookups :
          NoFreshRowAtCheck(id) /\ FreshRowServed(id) /\ UpsertOnSuccess(id)]_vars

\* batch quotes answered AAPL from its fresh row without a call and fetched
\* MSFT, whose one row now carries the fetched price
C13_Witness ==
    \E id \in DOMAIN lookups :
        /\ lookups[id].route = "quotes" /\ lookups[id].pc = "done"
        /\ lookups[id].symbols = <<"AAPL", "MSFT">>
        /\ lookups[id].calledFor = <<"MSFT">>
        /\ ~lookups[id].answers[1].failed
        /\ lookups[id].body["AAPL"] = [symbol |-> "AAPL", price |-> 3, currency |-> "USD", updated_at |-> 0]
        /\ cacheRows(price_cache, "MSFT")
              = {[symbol |-> "MSFT", price |-> 5, currency |-> "USD", updated_at |-> now]}
        /\ cacheRows(price_cache, "AAPL")
              = {[symbol |-> "AAPL", price |-> 3, currency |-> "USD", updated_at |-> 0]}

(***************************************************************************)
(* Batch quotes: one symbol's failure and the other symbols                *)
(***************************************************************************)
\* the second loop of POST /quotes run to its end on the given answers,
\* with no other request and no clock step in between
RECURSIVE quotesRun(_, _, _, _)
quotesRun(cache, t, lookup, answers) ==
    IF lookup.pc = "done" \/ answers = <<>> THEN lookup
    ELSE quotesRun(quotesStep(cache, t, lookup, Head(answers)).cache, t,
                   quotesStep(cache, t, lookup, Head(answers)).lookup, Tail(answers))

\* the symbols that had a fetch fail
FailedSymbols(l) == {l.calledFor[i] : i \in {j \in DOMAIN l.answers : l.answers[j].failed}}

\* the same answers with every failure replaced by a quote
Repaired(answers) ==
    {alt \in [DOMAIN answers -> Answers] :
        \A i \in DOMAIN answers : /\ ~alt[i].failed
                                  /\ ~answers[i].failed => alt[i] = answers[i]}

\* a batch that is answered holds one entry for each requested symbol in
\* upper case, and no other
OneEntryPerSymbol(l) ==
    (l.route = "quotes" /\ l.pc = "done" /\ l.status = 200)
        => DOMAIN l.body = Requested(l)

\* the answer for one symbol sets the entry of that symbol only, to the
\* quote, or on failure to the stale row or to an error entry, and the batch
\* goes on with the symbols still queued
StepIsolated(id) ==
    (Answered(id) /\ lookups[id].route = "quotes")
        => LET s == Head(lookups[id].toFetch)
               answer == Last(lookups'[id].answers)
           IN /\ DOMAIN lookups'[id].results = DOMAIN lookups[id].results \cup {s}
              /\ \A k \in DOMAIN lookups[id].results \ {s} :
                    lookups'[id].results[k] = lookups[id].results[k]
              /\ IF answer.failed THEN IsStaleFallback(id) \/ IsExplicitError(id)
                 ELSE lookups'[id].results[s] = quoteData(s, answer)
              /\ IF Tail(lookups[id].toFetch) = <<>> THEN lookups'[id].pc = "done"
                 ELSE /\ lookups'[id].pc = "fetch"
                      /\ lookups'[id].toFetch = Tail(lookups[id].toFetch)

\* when getYahooFinance() fails every queued symbol gets its stale row or an
\* error entry and the symbols with a fresh row keep their row
UnavailableIsolated(id) ==
    (Started(id) /\ lookups'[id].route = "quotes" /\ lookups'[id].status = 200)
        => \A s \in Requested(lookups'[id]) :
              lookups'[id].body[s] =
                 IF freshRows(price_cache, s, now) # {} THEN get(freshRows(price_cache, s, now))
                 ELSE quotesFallback(price_cache, s, "Service unavailable")

\* for a batch that starts to fetch, for every way the provider may answer
\* the queued symbols: the symbols without a failed fetch get the entries
\* they get when the failed fetches succeed instead
AsIfNoFetchFailed(id) ==
    (Started(id) /\ lookups'[id].route = "quotes" /\ lookups'[id].pc = "fetch")
        => \A answers \in [1..Len(lookups'[id].toFetch) -> Answers] :
              LET run == quotesRun(price_cache, now, lookups'[id], answers)
              IN /\ OneEntryPerSymbol(run)
                 /\ run.pc = "done"
                 /\ \A alt \in Repaired(answers) :
                       \A s \in Requested(run) \ FailedSymbols(run) :
                          run.body[s] = quotesRun(price_cache, now, lookups'[id], alt).body[s]

\* C14: batch quoting isolates symbols: whatever fetches fail, the response
\* holds exactly one entry per requested symbol in upper case; a symbol whose
\* fetch fails gets its stale row or an error entry, and the other symbols
\* get the entries they get when no fetch fails.
C14_BatchIsolatesSymbols ==
    [][\A id \in 1..MaxLookups :
          /\ id \in DOMAIN lookups' => OneEntryPerSymbol(lookups'[id])
          /\ StepIsolated(id)
          /\ UnavailableIsolated(id)
          /\ AsIfNoFetchFailed(id)]_vars

\* a batch for AAPL and MSFT in which the fetch of AAPL failed and the fetch
\* of MSFT succeeded: AAPL has its old row tagged stale, MSFT has its quote
C14_Witness ==
    \E id \in DOMAIN lookups :
        /\ lookups[id].route = "quotes" /\ lookups[id].pc = "done"
        /\ lookups[id].symbols = <<"AAPL", "MSFT">>
        /\ lookups[id].calledFor = <<"AAPL", "MSFT">>
        /\ lookups[id].answers[1].failed /\ ~lookups[id].answers[2].failed
        /\ DOMAIN lookups[id].body = {"AAPL", "MSFT"}
        /\ lookups[id].body["AAPL"] = [symbol |-> "AAPL", price |-> 3, currency |-> "USD",
                                       updated_at |-> 0, stale |-> TRUE]
        /\ lookups[id].body["MSFT"] = [symbol |-> "MSFT", price |-> 6, currency |-> "USD"]

(***************************************************************************)
(* POST /daily-wealth: the daily snapshot.  Of a row the model keeps the   *)
(* date and the totals; the details column is left out.                    *)
(***************************************************************************)
MaxDays == 2        \* the days that pass in one behaviour

\* the UTC day of a time in minutes
dayOf(t) == t \div (24 * 60)

\* new Date().toISOString().split('T')[0]
today(t) ==
    CASE dayOf(t) = 0 -> "2024-03-01"
      [] dayOf(t) = 1 -> "2024-03-02"
      [] dayOf(t) = 2 -> "2024-03-03"
      [] dayOf(t) = 3 -> "2024-03-04"
      [] OTHER -> "2024-03-05"

\* INSERT INTO daily_wealth that adds the totals to the row of the date
REPLACE_accumulate(rows, row) ==
    {r \in rows : r.date # row.date}
        \cup {[date |-> row.date,
               total_wealth |-> sumField({[k |-> 0, v |-> row.total_wealth]}
                                            \cup {[k |-> 1, v |-> r.total_wealth] :
                                                    r \in {x \in rows : x.date = row.date}}, "v"),
               total_cost |-> row.total_cost, base_currency |-> row.base_currency]}

\* INSERT OR REPLACE INTO daily_wealth, date being the PRIMARY KEY
REPLACE_daily_wealth(rows, row) == {r \in rows : r.date # row.date} \cup {row}

\* POST /daily-wealth: the handler has no await
Snapshot ==
    /\ LET t == snapshotTotals(accounts, ledger, price_cache, currency_rates, users)
           row == [date |-> today(now), total_wealth |-> t.total_wealth,
                   total_cost |-> t.total_cost, base_currency |-> t.base_currency]
       IN /\ daily_wealth' = REPLACE_daily_wealth(daily_wealth, row)
          /\ response' = [route |-> "POST /daily-wealth", status |-> 200, body |-> row]
    /\ UNCHANGED <<Ledgers, currency_rates, price_cache, users, now, lookups>>

\* midnight passes
NextDay ==
    /\ dayOf(now) < MaxDays
    /\ now' = (dayOf(now) + 1) * 24 * 60
    /\ UNCHANGED <<Ledgers, currency_rates, price_cache, users, response, lookups, daily_wealth>>

\* two positions, a cached price for one of them or for both, and no rate yet
InitWealth ==
    /\ accounts = [a \in AccountIds |-> [currency |-> "EUR"]]
    /\ ledger = ValuedLedger
    /\ nextId = 3
    /\ nextAccountId = 3
    /\ sessions = <<>>
    /\ admitted = NoRequest
    /\ calls = <<>>
    /\ requests = {}
    /\ uploads = {}
    /\ currency_rates = {}
    /\ price_cache \in PriceCaches \ {{}}
    /\ users = <<[base_currency |-> "EUR"]>>
    /\ response = NoResponse
    /\ now = 0
    /\ lookups = <<>>
    /\ daily_wealth = {}

NextWealth ==
    \/ Snapshot
    \/ NextDay
    \/ \E in \in {r \in RateInputs : r.to_currency # "" /\ r.from_currency \in {"USD", "usd"}} :
          SaveRate(in)

SpecWealth == InitWealth /\ [][NextWealth]_vars

(***************************************************************************)
(* One snapshot row per day                                                *)
(***************************************************************************)
OneRowPerDate(rows) == \A r1, r2 \in rows : r1.date = r2.date => r1 = r2

\* this step is a snapshot trigger
SnapshotStep ==
    /\ response'.route = "POST /daily-wealth"
    /\ UNCHANGED <<currency_rates, price_cache, now, lookups>>

\* the row of today after the trigger is the one row with the totals that the
\* ledger, the cache and the rates give now
TodayOverwritten ==
    {r \in daily_wealth' : r.date = today(now)}
        = {[date |-> today(now),
            total_wealth |-> snapshotTotals(accounts, ledger, price_cache, currency_rates, users).total_wealth,
            total_cost |-> snapshotTotals(accounts, ledger, price_cache, currency_rates, users).total_cost,
            base_currency |-> baseCurrencyOf(users)]}

OtherDatesKept ==
    {r \in daily_wealth' : r.date # today(now)} = {r \in daily_wealth : r.date # today(now)}

\* C15: after any sequence of snapshot triggers daily_wealth holds at most
\* one row per calendar date; a trigger on day d replaces the row of d by the
\* totals just computed, not added to the old ones, and leaves the rows of
\* all other dates as they are.
C15_OneSnapshotPerDay ==
    [][/\ OneRowPerDate(daily_wealth')
       /\ SnapshotStep => (TodayOverwritten /\ OtherDatesKept)]_vars

\* the second day: the row of the first day is kept, and the row of today
\* has been written again after a rate was saved, with other totals than the
\* row of the first day
C15_Witness ==
    /\ dayOf(now) = 1
    /\ response.route = "POST /daily-wealth"
    /\ {r.date : r \in daily_wealth} = {"2024-03-01", "2024-03-02"}
    /\ Cardinality(daily_wealth) = 2
    /\ \E r1, r2 \in daily_wealth :
          /\ r1.date = "2024-03-01" /\ r1.total_wealth = Ratio(170, 1)
          /\ r2.date = "2024-03-02" /\ r2.total_wealth = Ratio(125, 1)
          /\ r2.total_wealth = snapshotTotals(accounts, ledger, price_cache, currency_rates, users).total_wealth

(***************************************************************************)
(* The snapshot and the dashboard summary                                  *)
(***************************************************************************)
\* GET /dashboard/summary run to its end on the given answers of the
\* provider, with no other request and no clock step in between
RECURSIVE summaryRun(_, _, _, _, _, _)
summaryRun(cache, t, lookup, answers, rates, usrs) ==
    IF lookup.pc = "done" \/ answers = <<>> THEN lookup
    ELSE summaryRun(summaryStep(cache, t, lookup, Head(answers), rates, usrs).cache, t,
                    summaryStep(cache, t, lookup, Head(answers), rates, usrs).lookup,
                    Tail(answers), rates, usrs)

\* the dashboard summary on the tables as they are now, the provider
\* answering the fetches as given
summaryNow(answers) ==
    summaryRun(price_cache, now,
               summaryStart(summaryHoldings(accounts, ledger), price_cache, now,
                            currency_rates, users, TRUE),
               answers, currency_rates, users)

HeldSymbols == {h.symbol : h \in summaryHoldings(accounts, ledger)}

SameTotals(answers) ==
    /\ summaryNow(answers).pc = "done"
    /\ summaryNow(answers).status = 200
    /\ daily_wealth' \ daily_wealth # {} =>
          \A r \in daily_wealth' \ daily_wealth :
              /\ r.total_wealth = summaryNow(answers).body.total_wealth
              /\ r.total_cost = summaryNow(answers).body.total_cost
    /\ response'.body.total_wealth = summaryNow(answers).body.total_wealth
    /\ response'.body.total_cost = summaryNow(answers).body.total_cost

\* when every held symbol has a fresh row the snapshot stores the totals of
\* the dashboard summary
SnapshotEqualsSummaryWhenFresh ==
    [][(SnapshotStep /\ \A s \in HeldSymbols : freshRows(price_cache, s, now) # {})
          => \A answers \in [1..Cardinality(HeldSymbols) -> Answers] : SameTotals(answers)]_vars

\* C16: a snapshot trigger stores the total_wealth and the total_cost that
\* the dashboard summary returns on the same ledger, price cache, rate table
\* and provider answers.
C16_SnapshotEqualsSummary ==
    [][SnapshotStep
          => \A answers \in [1..Cardinality(HeldSymbols) -> Answers] : SameTotals(answers)]_vars

(***************************************************************************)
(* GET /portfolio/history: price series and the loop over dates.  The      *)
(* loop is modelled one date at a time; it has no await, so no other       *)
(* request runs while it is at work.  The totals are kept as the loop      *)
(* computes them, before Math.round.                                       *)
(***************************************************************************)
\* what yf.chart(symbol, ...) does: it throws, or it answers quotes, each
\* with a date and a close that may be null
NullClose == [null |-> TRUE, v |-> 0]

Close(v) == [null |-> FALSE, v |-> v]

ChartAnswers ==
    { [failed |-> TRUE, quotes |-> <<>>],
      [failed |-> FALSE, quotes |-> << [date |-> "2024-01-15", close |-> Close(5)],
                                       [date |-> "2024-01-16", close |-> NullClose],
                                       [date |-> "2024-02-01", close |-> Close(7)] >>],
      [failed |-> FALSE, quotes |-> << [date |-> "2024-01-16", close |-> Close(6)] >>] }

\* priceHistories[symbol][dateKey] = q.close for the quotes with a close
RECURSIVE closesOf(_)
closesOf(quotes) ==
    IF quotes = <<>> THEN <<>>
    ELSE LET q == quotes[Len(quotes)]
         IN IF q.close.null THEN closesOf(SubSeq(quotes, 1, Len(quotes) - 1))
            ELSE (q.date :> q.close.v) @@ closesOf(SubSeq(quotes, 1, Len(quotes) - 1))

\* the series of one symbol, or { fallback: cached?.price || 0 } when the
\* fetch fails
priceHistoryOf(cache, symbol, answer) ==
    IF answer.failed
    THEN ("fallback" :> (IF cacheRows(cache, symbol) # {} THEN get(cacheRows(cache, symbol)).price
                         ELSE 0))
    ELSE closesOf(answer.quotes)

\* [...allDates].sort()
RECURSIVE sortDates(_)
sortDates(dates) ==
    IF dates = {} THEN <<>>
    ELSE LET first == CHOOSE x \in dates : \A y \in dates : dateOrd(x) <= dateOrd(y)
         IN <<first>> \o sortDates(dates \ {first})

\* the price of a symbol at a date, taking the latest series date whatever
\* the date asked for
priceAt_latest(prices, dateStr) ==
    LET priceDates == DOMAIN prices \ {"fallback"}
    IN IF dateStr \in DOMAIN prices THEN prices[dateStr]
       ELSE IF priceDates # {}
       THEN prices[CHOOSE d \in priceDates : \A e \in priceDates : dateOrd(e) <= dateOrd(d)]
       ELSE IF "fallback" \in DOMAIN prices THEN prices["fallback"]
       ELSE 0

\* the price of a symbol at a date: prices[dateStr], or the price of the
\* closest earlier date, or prices.fallback || 0
priceAt(prices, dateStr) ==
    LET priceDates == {d \in DOMAIN prices \ {"fallback"} : dateOrd(d) <= dateOrd(dateStr)}
    IN IF dateStr \in DOMAIN prices THEN prices[dateStr]
       ELSE IF priceDates # {}
       THEN prices[CHOOSE d \in priceDates : \A e \in priceDates : dateOrd(e) <= dateOrd(d)]
       ELSE IF "fallback" \in DOMAIN prices THEN prices["fallback"]
       ELSE 0

\* the transactions from index i + 1 to index j applied to the running map
RECURSIVE applyRange(_, _, _, _)
applyRange(map, transactions, i, j) ==
    IF i >= j THEN map ELSE applyRange(applyTx(map, transactions[i + 1]), transactions, i + 1, j)

\* the while loop started from the first transaction at every date, on the
\* running map as it is
whileLoop_fromStart(transactions, dateStr, txIndex, running) ==
    [txIndex |-> txIndexAt(transactions, dateStr, 0),
     runningHoldings |-> applyRange(running, transactions, 0, txIndexAt(transactions, dateStr, 0))]

\* while (txIndex < transactions.length && transactions[txIndex].date <= dateStr)
whileLoop(transactions, dateStr, txIndex, running) ==
    [txIndex |-> txIndexAt(transactions, dateStr, txIndex),
     runningHoldings |-> applyRange(running, transactions, txIndex,
                                    txIndexAt(transactions, dateStr, txIndex))]

\* for (const [symbol, qty] of Object.entries(runningHoldings)): the price
\* taken for each symbol with qty > 1e-8
pricesUsed(running, priceHistories, dateStr) ==
    [s \in {x \in DOMAIN running : running[x] > HavingEps} |->
        priceAt(IF s \in DOMAIN priceHistories THEN priceHistories[s] ELSE <<>>, dateStr)]

\* totalValue += qty * price
totalValueOf(running, used) ==
    SetSum([s \in DOMAIN used |-> running[s] * used[s]], DOMAIN used)

\* the request up to the loop over dates; charts: the answer of yf.chart
\* for each active symbol
historyStart(led, cache, account_id, charts) ==
    LET transactions == historyTransactions(led, account_id)
        active == IF transactions = <<>> THEN {} ELSE activeSymbols(transactions)
        priceHistories == [s \in active |-> priceHistoryOf(cache, s, charts[s])]
        allDates == UNION {DOMAIN priceHistories[s] \ {"fallback"} : s \in active}
    IN [route |-> "history", transactions |-> transactions,
        priceHistories |-> priceHistories, sortedDates |-> sortDates(allDates),
        txIndex |-> 0, runningHoldings |-> <<>>, body |-> <<>>,
        pc |-> IF allDates = {} THEN "done" ELSE "loop", status |-> 200]

\* one turn of the loop over sortedDates
historyTurn(l) ==
    LET dateStr == l.sortedDates[Len(l.body) + 1]
        w == whileLoop(l.transactions, dateStr, l.txIndex, l.runningHoldings)
        used == pricesUsed(w.runningHoldings, l.priceHistories, dateStr)
        row == [date |-> dateStr, totalValue |-> totalValueOf(w.runningHoldings, used),
                totalCost |-> historyCost(l.transactions, dateStr),
                quantities |-> w.runningHoldings, prices |-> used]
    IN [l EXCEPT !.txIndex = w.txIndex, !.runningHoldings = w.runningHoldings,
                 !.body = Append(@, row),
                 !.pc = IF Len(l.body) + 1 = Len(l.sortedDates) THEN "done" ELSE "loop"]

Looping == \E id \in DOMAIN lookups : lookups[id].pc = "loop"

\* GET /portfolio/history arrives; the model keeps the latest request
StartHistory(account_id, charts) ==
    /\ ~Looping
    /\ lookups' = <<historyStart(ledger, price_cache, account_id, charts)>>
    /\ UNCHANGED <<Ledgers, currency_rates, price_cache, users, response, now, daily_wealth>>

HistoryTurn ==
    /\ Looping
    /\ lookups' = <<historyTurn(lookups[1])>>
    /\ UNCHANGED <<Ledgers, currency_rates, price_cache, users, response, now, daily_wealth>>

HistoryInputs ==
    { Body(1, "AAPL", "buy", Num(30), Num(2), NaN, "2024-01-15"),
      Body(1, "AAPL", "transfer_out", Num(30), Num(2), NaN, "2024-02-01"),
      Body(1, "AAPL", "sell", Num(20), Num(3), NaN, "2024-01-16"),
      Body(1, "AAPL", "dividend", Num(20), Num(1), NaN, "2024-02-01"),
      Body(1, "AAPL", "transfer_in", Num(20), Num(2), NaN, "2024-01-15T10:30:00"),
      Body(1, "MSFT", "buy", Num(20), Num(2), NaN, "2024-01-16"),
      Body(2, "AAPL", "buy", Num(20), Num(3), NaN, "2024-02-01") }

\* an empty ledger and a cached price for AAPL
InitHistory ==
    /\ accounts = [a \in AccountIds |-> [currency |-> "EUR"]]
    /\ ledger = <<>>
    /\ nextId = 1
    /\ nextAccountId = 3
    /\ sessions = <<>>
    /\ admitted = NoRequest
    /\ calls = <<>>
    /\ requests = {}
    /\ uploads = {}
    /\ currency_rates = {}
    /\ price_cache = {[symbol |-> "AAPL", price |-> 3, currency |-> "USD", updated_at |-> 0]}
    /\ users = <<>>
    /\ response = NoResponse
    /\ now = 0
    /\ lookups = <<>>
    /\ daily_wealth = {}

NextHistory ==
    \/ \E in \in HistoryInputs : ~Looping /\ CreateTransaction(in)
    \/ \E account_id \in {0, 1}, charts \in [LedgerSymbols -> ChartAnswers] :
          StartHistory(account_id, charts)
    \/ HistoryTurn

SpecHistory == InitHistory /\ [][NextHistory]_vars

(***************************************************************************)
(* History: the replay pointer                                             *)
(***************************************************************************)
\* the transactions of a symbol dated at or before a date
DatedUpTo(transactions, sym, dateStr) ==
    {k \in 1..Len(transactions) :
        transactions[k].symbol = sym /\ dateOrd(transactions[k].date) <= dateOrd(dateStr)}

\* their net quantity, every transaction counted once
HistoryNet(transactions, sym, dateStr) ==
    SetSum(Quantities(transactions),
           {k \in DatedUpTo(transactions, sym, dateStr) : historyAcquiring(transactions[k].type)})
    - SetSum(Quantities(transactions),
             {k \in DatedUpTo(transactions, sym, dateStr) : disposing(transactions[k].type)})

\* this step is a turn of the loop over dates
TurnTaken ==
    /\ Looping
    /\ lookups' # lookups
    /\ lookups'[1].route = "history"
    /\ Len(lookups'[1].body) = Len(lookups[1].body) + 1

QuantityIn_row(row, sym) == IF sym \in DOMAIN row.quantities THEN row.quantities[sym] ELSE 0

ForwardPointer ==
    LET l == lookups[1]
        after == lookups'[1]
        row == Last(after.body)
    IN /\ after.txIndex >= l.txIndex
       /\ after.transactions = l.transactions
       /\ \A k \in 1..Len(l.transactions) :
             k <= after.txIndex <=> dateOrd(l.transactions[k].date) <= dateOrd(row.date)
       /\ \A k \in 1..Len(l.body) : dateOrd(l.body[k].date) < dateOrd(row.date)
       /\ \A sym \in LedgerSymbols :
             QuantityIn_row(row, sym) = HistoryNet(l.transactions, sym, row.date)

\* C17: the reconstruction moves one pointer forward through the
\* transactions in date order: each transaction is applied once, none is
\* taken back, and the running quantities used for an emitted date d are the
\* net of exactly the transactions dated at or before d.
C17_ForwardReplay == [][TurnTaken => ForwardPointer]_vars

\* a purchase dated 2024-02-01 was stored before a purchase dated 2024-01-15;
\* the row of 2024-01-15 has the earlier purchase only, the row of 2024-02-01
\* has both
C17_Witness ==
    /\ Len(ledger) = 2
    /\ ledger[1].date = "2024-02-01" /\ ledger[2].date = "2024-01-15"
    /\ lookups # <<>> /\ lookups[1].route = "history" /\ lookups[1].pc = "done"
    /\ Len(lookups[1].body) = 2
    /\ lookups[1].body[1].date = "2024-01-15" /\ lookups[1].body[1].quantities = ("AAPL" :> 30)
    /\ lookups[1].body[2].date = "2024-02-01" /\ lookups[1].body[2].quantities = ("AAPL" :> 50)
    /\ lookups[1].txIndex = 2

(***************************************************************************)
(* History: which symbols get a price series                               *)
(***************************************************************************)
Histories == {id \in DOMAIN lookups : lookups[id].route = "history"}

\* the symbols with a positive balance in a row
HeldIn(row) == {s \in DOMAIN row.quantities : row.quantities[s] > HavingEps}

\* a symbol with a positive balance at the end of the ledger has a series or
\* a fallback price, and every row values it at quantity * price
ActiveSymbolsPriced ==
    \A id \in Histories :
        \A k \in 1..Len(lookups[id].body) :
            LET row == lookups[id].body[k]
            IN /\ \A s \in HeldIn(row) \cap activeSymbols(lookups[id].transactions) :
                     s \in DOMAIN lookups[id].priceHistories
               /\ row.totalValue
                     = SetSum([s \in HeldIn(row) |-> row.quantities[s] * row.prices[s]], HeldIn(row))

\* C18: every symbol with a positive running balance at some point of the
\* replay has a price series or the cached fallback price fetched for it and
\* contributes quantity * price at each emitted date at which its balance is
\* positive, also when its balance at the end of the ledger is zero.
C18_EverHeldSymbolsPriced ==
    \A id \in Histories :
        \A k \in 1..Len(lookups[id].body) :
            LET row == lookups[id].body[k]
            IN \A s \in HeldIn(row) :
                  /\ s \in DOMAIN lookups[id].priceHistories
                  /\ row.prices[s] = priceAt(lookups[id].priceHistories[s], row.date)

(***************************************************************************)
(* History: the price of a symbol at a date                                *)
(***************************************************************************)
SeriesDates(prices) == DOMAIN prices \ {"fallback"}

NotAfter(prices, dateStr) == {d \in SeriesDates(prices) : dateOrd(d) <= dateOrd(dateStr)}

LatestOf(dates) == CHOOSE d \in dates : \A e \in dates : dateOrd(e) <= dateOrd(d)

\* the price in the row is the close at the date of the row, else the close
\* at the latest series date before it, else the fallback price or 0
PriceNotFromLater(row, s, prices) ==
    /\ row.date \in SeriesDates(prices) => row.prices[s] = prices[row.date]
    /\ (row.date \notin SeriesDates(prices) /\ NotAfter(prices, row.date) # {})
          => /\ row.prices[s] = prices[LatestOf(NotAfter(prices, row.date))]
             /\ dateOrd(LatestOf(NotAfter(prices, row.date))) < dateOrd(row.date)
    /\ NotAfter(prices, row.date) = {}
          => row.prices[s] = (IF "fallback" \in DOMAIN prices THEN prices["fallback"] ELSE 0)

\* C19: the price used for a symbol at an emitted date d is the close of its
\* series at d or, when the series has no point at d, at the most recent
\* series date before d; a point dated after d is never used for d.
C19_PriceAtOrBefore ==
    \A id \in Histories :
        \A k \in 1..Len(lookups[id].body) :
            \A s \in HeldIn(lookups[id].body[k]) \cap DOMAIN lookups[id].priceHistories :
                PriceNotFromLater(lookups[id].body[k], s, lookups[id].priceHistories[s])

\* the row of 2024-01-16: the series of AAPL has closes on 2024-01-15 and
\* 2024-02-01 and none on 2024-01-16, and AAPL is priced at the close of
\* 2024-01-15
C19_Witness ==
    \E id \in Histories :
        /\ "AAPL" \in DOMAIN lookups[id].priceHistories
        /\ lookups[id].priceHistories["AAPL"] = ("2024-01-15" :> 5) @@ ("2024-02-01" :> 7)
        /\ \E k \in 1..Len(lookups[id].body) :
              /\ lookups[id].body[k].date = "2024-01-16"
              /\ "AAPL" \in HeldIn(lookups[id].body[k])
              /\ lookups[id].body[k].prices["AAPL"] = 5

(***************************************************************************)
(* Dashboard summary: total_wealth                                         *)
(***************************************************************************)
\* the rate from the currency of a price to the base currency: 1 for the
\* base currency itself and when no rate is stored
RateToBase(rates, currency, base) ==
    IF currency = base \/ RateRows(rates, currency, base) = {} THEN One
    ELSE (CHOOSE r \in RateRows(rates, currency, base) : TRUE).rate

\* quantity * price * rate of one holding
Contribution(h, prices, rates, base) ==
    RatioMul(Ratio(h.quantity * prices[h.symbol].price, 1),
             RateToBase(rates, OrElse(prices[h.symbol].currency, "USD"), base))

RECURSIVE TotalOver(_, _, _, _)
TotalOver(holdings, prices, rates, base) ==
    IF holdings = {} THEN Ratio(0, 1)
    ELSE LET h == CHOOSE x \in holdings : TRUE
         IN RatioAdd(Contribution(h, prices, rates, base),
                     TotalOver(holdings \ {h}, prices, rates, base))

Summaries ==
    {id \in DOMAIN lookups :
        lookups[id].route = "summary" /\ lookups[id].pc = "done" /\ lookups[id].status = 200}

\* 10 units at 200 USD with USD -> EUR at 0.92 and base EUR
ExampleHolding ==
    [symbol |-> "AAPL", account_id |-> 1, account_currency |-> "EUR", quantity |-> 10,
     avg_cost |-> Ratio(150, 1)]

ExampleValue ==
    valueOfHolding(ExampleHolding, ("AAPL" :> [price |-> 200, currency |-> "USD"]),
                   {[from_currency |-> "USD", to_currency |-> "EUR", rate |-> Ratio(92, 100)]},
                   "EUR").market_value

SummaryInputs ==
    { Body(1, "AAPL", "buy", Num(30), Num(2), NaN, "2024-01-15"),
      Body(1, "AAPL", "transfer_in", Num(20), Num(2), NaN, "2024-01-15"),
      Body(2, "MSFT", "buy", Num(20), Num(-3), NaN, "2024-01-15") }

\* an empty ledger, a rate, a user, and a cache that is empty or holds a
\* row for both symbols
InitSummary ==
    /\ accounts = [a \in AccountIds |-> [currency |-> "EUR"]]
    /\ ledger = <<>>
    /\ nextId = 1
    /\ nextAccountId = 3
    /\ sessions = <<>>
    /\ admitted = NoRequest
    /\ calls = <<>>
    /\ requests = {}
    /\ uploads = {}
    /\ currency_rates = {[from_currency |-> "USD", to_currency |-> "EUR", rate |-> Ratio(92, 100)]}
    /\ price_cache \in {{}, {[symbol |-> "AAPL", price |-> 3, currency |-> "USD", updated_at |-> 0],
                           [symbol |-> "MSFT", price |-> 4, currency |-> "EUR", updated_at |-> 0]}}
    /\ users = <<[base_currency |-> "EUR"]>>
    /\ response = NoResponse
    /\ now = 0
    /\ lookups = <<>>
    /\ daily_wealth = {}

NextSummary ==
    \/ \E in \in SummaryInputs : CreateTransaction(in)
    \/ \E loads \in BOOLEAN : StartSummary(loads)
    \/ \E id \in 1..MaxLookups, answer \in Answers : Answer(id, answer)

SpecSummary == InitSummary /\ [][NextSummary]_vars

\* the bodies of the answered summaries
SummaryBodies ==
    {lookups[id].body : id \in {i \in DOMAIN lookups : /\ lookups[i].route = "summary"
                                                       /\ lookups[i].pc = "done"
                                                       /\ lookups[i].status = 200}}

\* p is (total_wealth - total_cost) / total_cost * 100, said without a division
IsGainPercent(b) ==
    /\ b.total_gain_percent.den > 0
    /\ RatioMul(b.total_gain_percent, b.total_cost)
         = RatioMul(RatioSub(b.total_wealth, b.total_cost), Ratio(100, 1))

IsZero(x) == ~x.null /\ x.num = 0

MaxAccounts == 2    \* accounts created in one behaviour

\* DELETE FROM accounts WHERE id = ? under FOREIGN KEY (account_id)
\* REFERENCES accounts(id) with no ON DELETE action: the rows of the
\* account stay
DELETE_FROM_accounts_noCascade(accts, led, id) ==
    [accounts |-> [a \in DOMAIN accts \ {id} |-> accts[a]], ledger |-> led]

\* DELETE FROM accounts WHERE id = ? under FOREIGN KEY (account_id)
\* REFERENCES accounts(id) ON DELETE CASCADE
DELETE_FROM_accounts(accts, led, id) ==
    LET others(r) == r.account_id # id
    IN [accounts |-> [a \in DOMAIN accts \ {id} |-> accts[a]], ledger |-> SelectSeq(led, others)]

\* POST /accounts with a name: currency || 'EUR'
CreateAccount(currency) ==
    /\ nextAccountId <= MaxAccounts
    /\ accounts' = (nextAccountId :> [currency |-> OrElse(currency, "EUR")]) @@ accounts
    /\ nextAccountId' = nextAccountId + 1
    /\ UNCHANGED <<ledger, nextId, calls, requests, uploads, sessions, admitted, market>>

\* DELETE /accounts/:id
DeleteAccount(id) ==
    /\ IF id \notin DOMAIN accounts
       THEN /\ response' = [route |-> "DELETE /accounts/:id", status |-> 404]
            /\ UNCHANGED <<accounts, ledger>>
       ELSE /\ accounts' = DELETE_FROM_accounts(accounts, ledger, id).accounts
            /\ ledger' = DELETE_FROM_accounts(accounts, ledger, id).ledger
            /\ response' = [route |-> "DELETE /accounts/:id", status |-> 200]
    /\ UNCHANGED <<nextAccountId, nextId, calls, requests, uploads, sessions, admitted,
                   currency_rates, price_cache,
                   users, now, lookups, daily_wealth>>

\* DELETE /accounts/purge/all
Purge ==
    /\ ledger' = <<>>
    /\ accounts' = <<>>
    /\ price_cache' = {}
    /\ response' = [route |-> "DELETE /accounts/purge/all", status |-> 200]
    /\ UNCHANGED <<nextAccountId, nextId, calls, requests, uploads, sessions, admitted,
                   currency_rates, users, now,
                   lookups, daily_wealth>>

RowsWithId(led, id) == {i \in DOMAIN led : led[i].id = id}

\* the values PUT /transactions/:id binds to its UPDATE: a field left out of
\* the body keeps the stored value
updateValues(existing, in) ==
    [symbol |-> toUpperCase(OrElse(in.symbol, existing.symbol)),
     type |-> OrElse(in.type, existing.type),
     quantity |-> IF in.quantity.nan THEN Num(existing.quantity) ELSE in.quantity,
     price |-> IF in.price.nan THEN Num(existing.price) ELSE in.price,
     fee |-> IF in.fee.nan THEN existing.fee ELSE in.fee,
     currency |-> OrElse(in.currency, existing.currency),
     date |-> OrElse(in.date, existing.date),
     notes |-> OrElse(in.notes, existing.notes)]

\* PUT /transactions/:id: 404 when the row does not exist; an UPDATE that
\* breaks a constraint of the schema throws and leaves the row as it was
UpdateTransaction(id, in) ==
    /\ IF RowsWithId(ledger, id) = {}
       THEN UNCHANGED ledger
       ELSE LET i == CHOOSE k \in RowsWithId(ledger, id) : TRUE
                existing == ledger[i]
                account_id == IF in.account_id # 0 THEN in.account_id ELSE existing.account_id
                tx == updateValues(existing, in)
            IN IF InsertError(accounts, account_id, tx) # ""
               THEN UNCHANGED ledger
               ELSE ledger' = [ledger EXCEPT ![i] = StoredRow(existing.id, account_id, tx)]
    /\ UNCHANGED <<accounts, nextAccountId, nextId, calls, requests, uploads, sessions, admitted, market>>

\* DELETE /transactions/:id
DeleteTransaction(id) ==
    /\ LET others(r) == r.id # id
       IN IF RowsWithId(ledger, id) = {}
          THEN UNCHANGED ledger
          ELSE ledger' = SelectSeq(ledger, others)
    /\ UNCHANGED <<accounts, nextAccountId, nextId, calls, requests, uploads, sessions, admitted, market>>

\* bodies of POST /transactions for an account that may exist
AccountTxInputs ==
    { Body(1, "AAPL", "buy", Num(30), Num(2), NaN, "2024-01-15"),
      Body(3, "AAPL", "buy", Num(30), Num(2), NaN, "2024-01-15") }

\* bodies of PUT /transactions/:id that move the row to an account
UpdateInputs ==
    { Body(2, "", "", NaN, NaN, NaN, ""),
      Body(3, "", "", NaN, NaN, NaN, "") }

\* POST /import/csv for an account that exists: the rows importCSV stores
ImportInto(file, accountId) ==
    /\ accountId \in DOMAIN accounts
    /\ ledger' = importCSV(accounts, ledger, nextId, file, accountId, "").ledger
    /\ nextId' = importCSV(accounts, ledger, nextId, file, accountId, "").nextId
    /\ UNCHANGED <<accounts, nextAccountId, calls, requests, uploads, sessions, admitted, market>>

\* a one-row generic export
AccountFile == [headers |-> GenericHeaders, records |-> <<GBase>>]

\* no account and no transaction yet
InitAccounts ==
    /\ accounts = <<>>
    /\ nextAccountId = 1
    /\ sessions = <<>>
    /\ admitted = NoRequest
    /\ ledger = <<>>
    /\ nextId = 1
    /\ calls = <<>>
    /\ requests = {}
    /\ EmptyMarket
    /\ uploads = {AccountFile}

NextAccounts ==
    \/ CreateAccount("")
    \/ \E id \in 1..MaxAccounts : DeleteAccount(id)
    \/ Purge
    \/ \E in \in AccountTxInputs : nextId <= MaxTx /\ CreateTransaction(in)
    \/ \E id \in 1..MaxTx, in \in UpdateInputs : UpdateTransaction(id, in)
    \/ \E id \in 1..MaxTx : DeleteTransaction(id)
    \/ \E f \in uploads, a \in 1..MaxAccounts : nextId <= MaxTx /\ ImportInto(f, a)

SpecAccounts == InitAccounts /\ [][NextAccounts]_vars

\* every transaction belongs to an account that exists
NoOrphans == \A i \in DOMAIN ledger : ledger[i].account_id \in DOMAIN accounts

\* this step deletes the account id
AccountDeleted(id) ==
    /\ response'.route = "DELETE /accounts/:id"
    /\ id \in DOMAIN accounts
    /\ id \notin DOMAIN accounts'

\* the rows of the account are gone and every other row is still there, in
\* the same order
ExactlyItsRowsRemoved(id) ==
    LET kept == {i \in DOMAIN ledger : ledger[i].account_id # id}
    IN /\ Len(ledger') = Cardinality(kept)
       /\ \A i \in DOMAIN ledger' : ledger'[i].account_id # id
       /\ \A i \in kept : \E j \in DOMAIN ledger' : ledger'[j] = ledger[i]
       /\ \A j, k \in DOMAIN ledger' : j < k => ledger'[j].id < ledger'[k].id
       /\ \A a \in DOMAIN accounts \ {id} : a \in DOMAIN accounts' /\ accounts'[a] = accounts[a]

\* C22: deleting an account removes exactly the transactions of that
\* account, and after any sequence of account creations and deletions,
\* transaction creations, edits and deletions, imports and purges, every
\* transaction of the ledger refers to an existing account
C22_AccountDeleteCascades ==
    /\ []NoOrphans
    /\ [][\A id \in 1..MaxAccounts : AccountDeleted(id) => ExactlyItsRowsRemoved(id)]_vars

\* an account with transactions has been deleted while the other account
\* keeps its transaction
C22_Witness ==
    /\ response = [route |-> "DELETE /accounts/:id", status |-> 200]
    /\ DOMAIN accounts = {2}
    /\ ledger # <<>>
    /\ nextId > 2
    /\ \A i \in DOMAIN ledger : ledger[i].account_id = 2

(***************************************************************************)
(* Sessions and the guard of the API routes                                *)
(***************************************************************************)
\* app.use(path, ...): the routers in the order they are mounted, with
\* whether requireAuth stands before the router
Mounts ==
    << [path |-> "/api/auth", requireAuth |-> FALSE],
       [path |-> "/api/accounts", requireAuth |-> TRUE],
       [path |-> "/api/transactions", requireAuth |-> TRUE],
       [path |-> "/api/goals", requireAuth |-> TRUE],
       [path |-> "/api/tags", requireAuth |-> TRUE],
       [path |-> "/api/currencies", requireAuth |-> TRUE],
       [path |-> "/api/prices", requireAuth |-> TRUE],
       [path |-> "/api/settings", requireAuth |-> TRUE] >>

ApiPaths == {Mounts[i].path : i \in 2..Len(Mounts)}

Cookies == {"c1", "c2"}

\* bcrypt.hashSync(password, 12)
hashSync(password) == [bcrypt |-> password]

\* bcrypt.compareSync(password, hash)
compareSync(password, hash) == hash = hashSync(password)

\* req.session: the stored session of the cookie, or a new session that
\* carries nothing
sessionOf(store, cookie) ==
    IF cookie \in DOMAIN store THEN store[cookie] ELSE [userId |-> 0, username |-> ""]

\* the guard with only its first test: express-session gives every request
\* a session
requireAuth_sessionOnly(store, cookie) == 0

\* requireAuth: 401, or 0 when it calls next()
requireAuth(store, cookie) ==
    IF sessionOf(store, cookie).userId = 0 THEN 401 ELSE 0

\* req.session.destroy()
destroy(store, cookie) == [c \in DOMAIN store \ {cookie} |-> store[c]]

Unserved == <<accounts, nextAccountId, ledger, nextId, calls, requests, uploads, currency_rates,
              price_cache, users, response, now, lookups, daily_wealth>>

\* SELECT * FROM users WHERE username = ?
usersNamed(username) == {i \in DOMAIN users : users[i].username = username}

\* POST /api/auth/login
Login(cookie, username, password) ==
    /\ LET path == "/api/auth/login"
           id == CHOOSE i \in usersNamed(username) : TRUE
       IN IF username = "" \/ password = ""
          THEN admitted' = [cookie |-> cookie, path |-> path, status |-> 400] /\ UNCHANGED sessions
          ELSE IF usersNamed(username) = {} \/ ~compareSync(password, users[id].password_hash)
          THEN admitted' = [cookie |-> cookie, path |-> path, status |-> 401] /\ UNCHANGED sessions
          ELSE /\ sessions' = (cookie :> [userId |-> id, username |-> users[id].username])
                               @@ sessions
               /\ admitted' = [cookie |-> cookie, path |-> path, status |-> 200]
    /\ UNCHANGED Unserved

\* POST /api/auth/logout
Logout(cookie) ==
    /\ sessions' = destroy(sessions, cookie)
    /\ admitted' = [cookie |-> cookie, path |-> "/api/auth/logout", status |-> 200]
    /\ UNCHANGED Unserved

\* the store clears a session whose cookie has expired
Expire(cookie) ==
    /\ cookie \in DOMAIN sessions
    /\ sessions' = destroy(sessions, cookie)
    /\ admitted' = NoRequest
    /\ UNCHANGED Unserved

\* a request for a route under one of the API paths reaches its mount:
\* requireAuth answers 401 or hands the request to the router
Request(cookie, path) ==
    /\ \E i \in DOMAIN Mounts :
          /\ Mounts[i].path = path
          /\ admitted' = [cookie |-> cookie, path |-> path,
                          status |-> IF Mounts[i].requireAuth THEN requireAuth(sessions, cookie)
                                     ELSE 0]
    /\ UNCHANGED sessions
    /\ UNCHANGED Unserved

\* a router of which no table is modelled answers
Answered200(path) ==
    /\ response' = [route |-> path, status |-> 200]
    /\ UNCHANGED <<accounts, nextAccountId, ledger, nextId, calls, requests, uploads, sessions,
                   admitted, currency_rates, price_cache, users, now, lookups, daily_wealth>>

\* the router of the request that requireAuth let through runs one of its
\* handlers
Serve ==
    /\ admitted.status = 0
    /\ CASE admitted.path = "/api/accounts" -> CreateAccount("")
         [] admitted.path = "/api/transactions" ->
                CreateTransaction(Body(1, "AAPL", "buy", Num(30), Num(2), NaN, "2024-01-15"))
         [] admitted.path = "/api/currencies" ->
                SaveRate([from_currency |-> "USD", to_currency |-> "EUR", rate |-> Ratio(92, 100)])
         [] admitted.path = "/api/prices" -> Snapshot
         [] admitted.path \in {"/api/goals", "/api/tags", "/api/settings"} ->
                Answered200(admitted.path)
         [] OTHER -> FALSE

\* the seeded user, no account, nobody logged in
InitAuth ==
    /\ accounts = <<>>
    /\ nextAccountId = 1
    /\ sessions = <<>>
    /\ admitted = NoRequest
    /\ ledger = <<>>
    /\ nextId = 1
    /\ calls = <<>>
    /\ requests = {}
    /\ uploads = {}
    /\ currency_rates = {}
    /\ price_cache = {}
    /\ users = <<[username |-> "JeffNasseri", password_hash |-> hashSync("Jeff123!Nasseri123!"),
                  base_currency |-> "EUR"]>>
    /\ response = NoResponse
    /\ now = 0
    /\ lookups = <<>>
    /\ daily_wealth = {}

NextAuth ==
    \/ \E cookie \in Cookies, username \in {"", "JeffNasseri", "jeff"},
          password \in {"", "Jeff123!Nasseri123!", "guess"} : Login(cookie, username, password)
    \/ \E cookie \in Cookies : Logout(cookie)
    \/ \E cookie \in Cookies : Expire(cookie)
    \/ \E cookie \in Cookies, path \in ApiPaths : Request(cookie, path)
    \/ Serve

SpecAuth == InitAuth /\ [][NextAuth]_vars

HasUserId(store, cookie) == cookie \in DOMAIN store /\ store[cookie].userId # 0

Stored == <<accounts, nextAccountId, ledger, nextId, currency_rates, price_cache, users,
            daily_wealth>>

\* every API path is mounted behind requireAuth
AllGuarded ==
    \A p \in {"/api/accounts", "/api/transactions", "/api/goals", "/api/tags", "/api/currencies",
              "/api/prices", "/api/settings"} :
        \E i \in DOMAIN Mounts : Mounts[i].path = p /\ Mounts[i].requireAuth

\* a request of a session without a userId is answered 401 and changes
\* nothing
UnauthenticatedRefused ==
    \A cookie \in Cookies, path \in ApiPaths :
        (/\ admitted' # admitted
         /\ admitted'.cookie = cookie
         /\ admitted'.path = path
         /\ ~HasUserId(sessions, cookie))
        => /\ admitted'.status = 401
           /\ UNCHANGED <<Stored, response, sessions>>

\* whatever changes a table or answers for a router is done for a request
\* that requireAuth let through, of a session with a userId
ServedOnlyWithUserId ==
    <<Stored, response>>' # <<Stored, response>>
    => /\ admitted' = admitted
       /\ admitted.status = 0
       /\ admitted.path \in ApiPaths
       /\ HasUserId(sessions, admitted.cookie)

\* a session gets its userId from a successful login and loses it at the
\* logout
UserIdFromLoginToLogout ==
    \A cookie \in Cookies :
        /\ HasUserId(sessions', cookie) /\ ~HasUserId(sessions, cookie)
           => admitted' = [cookie |-> cookie, path |-> "/api/auth/login", status |-> 200]
        /\ admitted' # admitted /\ admitted' = [cookie |-> cookie, path |-> "/api/auth/logout",
                                               status |-> 200]
           => ~HasUserId(sessions', cookie)

\* C23: every route under /api/accounts, /api/transactions, /api/goals,
\* /api/tags, /api/currencies, /api/prices and /api/settings is behind
\* requireAuth: a request whose session has no userId is answered 401 and
\* changes no stored state, and a session carries a userId only from a
\* successful login to the next logout
C23_ApiRequiresSession ==
    /\ []AllGuarded
    /\ [][UnauthenticatedRefused /\ ServedOnlyWithUserId /\ UserIdFromLoginToLogout]_vars

\* after a login, a request and a logout, a request of the same cookie has
\* been answered 401 while the account created before the logout is there
C23_Witness ==
    /\ admitted = [cookie |-> "c1", path |-> "/api/transactions", status |-> 401]
    /\ sessions = <<>>
    /\ DOMAIN accounts = {1}
    /\ Len(ledger) = 1

(***************************************************************************)
(* Rows the generic parser rejects                                         *)
(***************************************************************************)
\* generic rows with a required field missing, with a type that is not
\* known, with the type cell empty and with the type in capitals
ValidationRows ==
    { GBase,
      [GBase EXCEPT !.symbol = ""],
      [GBase EXCEPT !.date = ""],
      [GBase EXCEPT !.type = "split"],
      [GBase EXCEPT !.type = "", !.symbol = "msft"],
      [GBase EXCEPT !.type = "SELL"] }

InitValidation ==
    /\ accounts = [a \in AccountIds |-> [currency |-> "EUR"]]
    /\ nextAccountId = 3
    /\ sessions = <<>>
    /\ admitted = NoRequest
    /\ ledger = <<>>
    /\ nextId = 1
    /\ calls = <<>>
    /\ requests = {}
    /\ EmptyMarket
    /\ uploads \in {{f} : f \in FilesOf(GenericHeaders, ValidationRows)}

NextValidation == \E f \in uploads, a \in AccountIds : ImportCSV(f, a, "")

SpecValidation == InitValidation /\ [][NextValidation]_vars

\* the row has no symbol or no date
MissingRequired(r) == r.symbol = "" \/ r.date = ""

\* the value of the type cell, lower-cased, is one of the seven types
TypeKnown(r) == toLowerCase(r.type) \in TxTypes

RowsWhere(c, P(_)) == {i \in DOMAIN c.file.records : P(c.file.records[i])}

\* C24: every row rejected for a missing symbol, a missing date or a type
\* that is not known yields one string in ImportResult.errors, and the rows
\* after it are still imported
C24_RejectedRowsReported ==
    \A n \in DOMAIN calls :
        LET c == calls[n]
            rejected(r) == MissingRequired(r) \/ ~TypeKnown(r)
        IN /\ ~c.threw
           /\ Len(c.outcome) = Len(c.parsed)
           /\ Len(c.result.errors) >= Cardinality(RowsWhere(c, rejected))

\* C25: the generic parser yields a candidate for a row only if the symbol
\* and the date of the row are present and its type value, lower-cased, is
\* one of the seven types; every other row, a row with an empty type cell
\* included, is rejected and inserts nothing
C25_GenericAcceptsOnlyTyped ==
    \A n \in DOMAIN calls :
        LET c == calls[n]
            accepted(r) == ~MissingRequired(r) /\ TypeKnown(r)
        IN /\ Len(c.parsed) = Cardinality(RowsWhere(c, accepted))
           /\ Len(c.after) - Len(c.before) <= Cardinality(RowsWhere(c, accepted))

(***************************************************************************)
(* Revolut stock exports with cash rows                                    *)
(***************************************************************************)
\* trades of the four types, the two kinds of cash rows, a trade whose
\* quantity is not a number and a trade whose date does not parse
RevolutTradeRows ==
    { RSBase,
      [RSBase EXCEPT !["Type"] = "CASH TOP-UP", !["Quantity"] = "0", !["Price per share"] = "0"],
      [RSBase EXCEPT !["Type"] = "CASH WITHDRAWAL", !["Ticker"] = "", !["Quantity"] = ""],
      [RSBase EXCEPT !["Type"] = "SELL - MARKET", !["Date"] = "2024-01-16T09:00:00.000Z"],
      [RSBase EXCEPT !["Type"] = "DIVIDEND", !["Quantity"] = "0", !["Price per share"] = "0"],
      [RSBase EXCEPT !["Type"] = "STOCK SPLIT", !["Quantity"] = "0.00000003",
                     !["Price per share"] = "0", !["Total Amount"] = "0"],
      [RSBase EXCEPT !["Quantity"] = "abc"],
      [RSBase EXCEPT !["Date"] = "15 Jan"] }

InitRevolut ==
    /\ accounts = [a \in AccountIds |-> [currency |-> "EUR"]]
    /\ nextAccountId = 3
    /\ sessions = <<>>
    /\ admitted = NoRequest
    /\ ledger = <<>>
    /\ nextId = 1
    /\ calls = <<>>
    /\ requests = {}
    /\ EmptyMarket
    /\ uploads \in {{f} : f \in FilesOf(RevolutStockHeaders, RevolutTradeRows)}

NextRevolut == \E f \in uploads, a \in AccountIds : ImportCSV(f, a, "")

SpecRevolut == InitRevolut /\ [][NextRevolut]_vars

\* a row of one of the four trade types with a ticker and a date
IsTrade(r) ==
    /\ r["Type"] \in {"BUY - MARKET", "SELL - MARKET", "DIVIDEND", "STOCK SPLIT"}
    /\ r["Ticker"] # ""
    /\ r["Date"] # ""

IsCash(r) == r["Type"] \in {"CASH TOP-UP", "CASH WITHDRAWAL"}

\* the quantity of the row is a number and its date parses
WellFormed(r) ==
    /\ r["Quantity"] \in {"", "0", "0.00000002", "0.00000003"}
    /\ r["Date"] \in {"2024-01-15T10:30:00.000Z", "2024-01-16T09:00:00.000Z"}

\* the candidates of the call whose fingerprint is neither in the ledger of
\* the account before the call nor carried by an earlier candidate
NotDuplicates(c) ==
    {i \in DOMAIN c.parsed :
        /\ Fps(c)[i] \notin getExistingFingerprints(c.before, c.account)
        /\ \A j \in 1..(i - 1) : Fps(c)[j] # Fps(c)[i]}

\* the cash rows leave nothing: the trades are the candidates, the result
\* counts the trades that are no duplicates, and there is no error
OnlyTradesImported(c) ==
    /\ ~c.threw
    /\ c.result.format = "revolut-stocks"
    /\ c.result.errors = <<>>
    /\ c.result.total = Cardinality(RowsWhere(c, IsTrade))
    /\ c.result.imported = Cardinality(NotDuplicates(c))
    /\ c.result.imported + c.result.skipped = Cardinality(RowsWhere(c, IsTrade))
    /\ Len(c.after) = Len(c.before) + c.result.imported
    /\ \A i \in DOMAIN NewRows(c) : NewRows(c)[i].notes \notin {"Revolut: CASH TOP-UP",
                                                               "Revolut: CASH WITHDRAWAL"}

C27_QuantityAndPriceNonNegative ==
    \A i \in DOMAIN ledger : ledger[i].quantity >= 0 /\ ledger[i].price >= 0

(***************************************************************************)
(* Fingerprints of the stored rows                                         *)
(***************************************************************************)
\* account, symbol, type, quantity to 8 decimals, price to 4 decimals, day
StoredFingerprint(r) ==
    <<r.account_id, r.symbol, r.type, toFixed(Num(r.quantity), Step8), toFixed(Num(r.price), Step4),
      datePart(r.date)>>

\* C28: starting from accounts without transactions and using only
\* importCSV calls, one at a time, no two transactions of an account have
\* the same fingerprint (account, symbol, type, quantity to 8 decimals,
\* price to 4 decimals, day)
C28_NoDuplicateFingerprints ==
    \A i, j \in DOMAIN ledger :
        (i # j /\ ledger[i].account_id = ledger[j].account_id)
        => StoredFingerprint(ledger[i]) # StoredFingerprint(ledger[j])

\* an account holds two rows after two imports of which the second met a
\* duplicate of a stored row and a new row
C28_Witness ==
    /\ Len(calls) = 2
    /\ calls[1].account = calls[2].account
    /\ calls[1].result.imported > 0
    /\ calls[2].result.skipped > 0
    /\ calls[2].result.imported > 0
    /\ Cardinality({i \in DOMAIN ledger : ledger[i].account_id = calls[1].account}) >= 2

(***************************************************************************)
(* The counts of an import                                                 *)
(***************************************************************************)
RowsOfAccount(led, a) == SelectSeq(led, LAMBDA r : r.account_id = a)

\* every parsed row has one outcome and the result counts the outcomes
CountedOnce(c) ==
    /\ c.result.total = Len(c.parsed)
    /\ Len(c.outcome) = Len(c.parsed)
    /\ c.result.imported = CountOutcome(c, "imported")
    /\ c.result.skipped = CountOutcome(c, "skipped")
    /\ Len(c.result.errors) = CountOutcome(c, "error")
    /\ c.result.imported + c.result.skipped + Len(c.result.errors) = c.result.total

\* the account of the call gains imported rows and nothing else changes
GrowsByImported(c) ==
    /\ Len(c.after) = Len(c.before) + c.result.imported
    /\ SubSeq(c.after, 1, Len(c.before)) = c.before
    /\ \A i \in DOMAIN NewRows(c) : NewRows(c)[i].account_id = c.account
    /\ \A a \in AccountIds \ {c.account} : RowsOfAccount(c.after, a) = RowsOfAccount(c.before, a)
    /\ Len(RowsOfAccount(c.after, c.account))
         = Len(RowsOfAccount(c.before, c.account)) + c.result.imported

\* C29: for every importCSV call on a file of a known format each parsed
\* row is counted once, imported + skipped + number of error strings =
\* total, the ledger of the target account grows by exactly imported rows,
\* and the rows of every other account and the rows the target account had
\* before stay as they were
C29_RowsCountedOnce ==
    \A n \in DOMAIN calls :
        IF calls[n].threw THEN calls[n].after = calls[n].before
        ELSE calls[n].result.format \in KnownFormats
             => CountedOnce(calls[n]) /\ GrowsByImported(calls[n])

\* a call that imported one row and reported one error into an account,
\* while the other account holds a row of an earlier call
C29_Witness ==
    /\ Len(calls) = 2
    /\ calls[1].account # calls[2].account
    /\ calls[1].result.imported > 0
    /\ calls[2].result.imported = 1
    /\ Len(calls[2].result.errors) = 1
    /\ calls[2].result.total = 2

(***************************************************************************)
(* Cache rows are kept                                                     *)
(***************************************************************************)
\* no step takes the row of a symbol away
RowsStay == \A r \in price_cache : cacheRows(price_cache', r.symbol) # {}

\* a fetch that succeeds leaves a row for its symbol
SuccessStores ==
    \A id \in DOMAIN lookups :
        (Answered(id) /\ ~FetchFails(id)) => cacheRows(price_cache', Head(lookups[id].toFetch)) # {}

\* in this step GET /quote/:symbol of request id answers
QuoteAnswers(id) ==
    /\ id \in DOMAIN lookups'
    /\ lookups'[id].route = "quote"
    /\ lookups'[id].pc = "done"
    /\ id \in DOMAIN lookups => lookups[id].pc = "fetch"

\* a quote of a symbol that has a row answers 200 with a price of that
\* symbol: the row, the fetched quote, or the row tagged stale
QuoteOfCachedSymbolHasPrice ==
    \A id \in DOMAIN lookups' :
        LET s == toUpperCase(lookups'[id].symbols[1])
            l == lookups'[id]
        IN (QuoteAnswers(id) /\ cacheRows(price_cache, s) # {})
           => /\ l.status = 200
              /\ "error" \notin DOMAIN l.body
              /\ l.body.symbol = s
              /\ \/ l.body \in freshRows(price_cache, s, now)
                 \/ l.answers # <<>> /\ ~Last(l.answers).failed /\ l.body = quoteData(s, Last(l.answers))
                 \/ l.answers # <<>> /\ Last(l.answers).failed
                    /\ l.body = tagStale(get(cacheRows(price_cache, s)))

\* C30: price lookups never delete a cache row: once a fetch for a symbol
\* has succeeded the symbol keeps a row, and every later quote of that
\* symbol answers with a price (fresh, refetched or tagged stale) and never
\* with the not-found result, whatever the provider answers, as long as no
\* purge is executed
C30_CacheRowsKept == [][RowsStay /\ SuccessStores /\ QuoteOfCachedSymbolHasPrice]_vars

\* the row of AAPL has grown old, the provider fails, and the quote answers
\* with the row tagged stale
C30_Witness ==
    \E id \in DOMAIN lookups :
        /\ lookups[id].route = "quote"
        /\ lookups[id].pc = "done"
        /\ lookups[id].status = 200
        /\ lookups[id].answers = <<Failed>>
        /\ lookups[id].body = tagStale([symbol |-> "AAPL", price |-> 3, currency |-> "USD",
                                        updated_at |-> 0])
        /\ now = MaxNow

====
